---- MODULE Spec2Model ----
(***************************************************************************)
(* Model of the issue-triage scripts of Keira:                             *)
(*   scripts/process_ai_issue.py         (classify_issue_with_ai, main)    *)
(*   .github/scripts/ai_issue_analyze.py (main, validate_result)           *)
(* Python strings are sequences of one-character strings, so that strip,   *)
(* lower, split and the slug regex are computed and not assumed.           *)
(***************************************************************************)
EXTENDS Integers, Sequences, FiniteSets, TLC

(* ---------------------------------------------------------------- bounds *)
\* longest field value (in characters) a model reply supplies for a field
MaxValLen == 2

(* ------------------------------------------------------ program constants *)
\* for attempt in range(1, 4)
MaxAttempts == 3
\* RETRY_MAX = 3
RETRY_MAX == 3

(* ------------------------------------------------------- string helpers *)
WhiteSpace == {" ", "\t", "\n"}

UpperChars == <<"A","B","C","D","E","F","G","H","I","J","K","L","M",
                "N","O","P","Q","R","S","T","U","V","W","X","Y","Z">>
LowerChars == <<"a","b","c","d","e","f","g","h","i","j","k","l","m",
                "n","o","p","q","r","s","t","u","v","w","x","y","z">>
DigitChars == <<"0","1","2","3","4","5","6","7","8","9">>

Range(s) == { s[i] : i \in DOMAIN s }

\* str.lower() on one character
LowerChar(c) ==
    IF \E i \in DOMAIN UpperChars : UpperChars[i] = c
    THEN LowerChars[CHOOSE i \in DOMAIN UpperChars : UpperChars[i] = c]
    ELSE c

\* str.lower()
Lower(s) == [ i \in DOMAIN s |-> LowerChar(s[i]) ]

\* s.lstrip(chars)
RECURSIVE LStripSet(_, _)
LStripSet(s, cs) ==
    IF s = <<>> THEN <<>>
    ELSE IF s[1] \in cs THEN LStripSet(Tail(s), cs) ELSE s

\* s.rstrip(chars)
RECURSIVE RStripSet(_, _)
RStripSet(s, cs) ==
    IF s = <<>> THEN <<>>
    ELSE IF s[Len(s)] \in cs THEN RStripSet(SubSeq(s, 1, Len(s) - 1), cs) ELSE s

\* s.strip(chars)
StripSet(s, cs) == RStripSet(LStripSet(s, cs), cs)

\* s.strip()
Strip(s) == StripSet(s, WhiteSpace)

\* sep.join(parts)
RECURSIVE Join(_, _)
Join(sep, parts) ==
    IF parts = <<>> THEN <<>>
    ELSE IF Len(parts) = 1 THEN parts[1]
    ELSE parts[1] \o sep \o Join(sep, Tail(parts))

\* s.split(c) for a one-character separator
RECURSIVE SplitAcc(_, _, _)
SplitAcc(s, c, cur) ==
    IF s = <<>> THEN <<cur>>
    ELSE IF s[1] = c THEN <<cur>> \o SplitAcc(Tail(s), c, <<>>)
    ELSE SplitAcc(Tail(s), c, Append(cur, s[1]))

Split(s, c) == SplitAcc(s, c, <<>>)

\* s.startswith(prefix)
StartsWith(s, prefix) == Len(s) >= Len(prefix) /\ SubSeq(s, 1, Len(prefix)) = prefix

\* [x for x in xs if x]  (drops empty strings)
DropEmpty(xs) == SelectSeq(xs, LAMBDA x : x # <<>>)

\* [s.strip() for s in str(v).split(',') if s.strip()]
SplitTokens(s) == DropEmpty([ i \in DOMAIN Split(s, ",") |-> Strip(Split(s, ",")[i]) ])

\* x in xs  for a Python list
InList(x, xs) == \E i \in DOMAIN xs : xs[i] = x

\* all strings over an alphabet up to a length
RECURSIVE StringsUpTo(_, _)
StringsUpTo(alpha, n) ==
    IF n = 0 THEN { <<>> }
    ELSE LET shorter == StringsUpTo(alpha, n - 1)
         IN  shorter \cup { Append(s, c) : s \in shorter, c \in alpha }

\* f"{n}" for the small non-negative numbers the scripts format
NumStr(n) == IF n < 10 THEN <<DigitChars[n + 1]>>
             ELSE <<DigitChars[(n \div 10) + 1], DigitChars[(n % 10) + 1]>>

(* ------------------------------------------------------------ JSON values *)
\* A JSON value as the scripts see it after json.loads.  t is the Python
\* type ("absent" = the key is not in the object), s the text of a string or
\* of a number, l the elements of a list (lists of strings).
Val(t, s, l) == [t |-> t, s |-> s, l |-> l]
Absent  == Val("absent", <<>>, <<>>)
Null    == Val("null", <<>>, <<>>)
StrV(s) == Val("str", s, <<>>)
NumV(s) == Val("num", s, <<>>)
ListV(l) == Val("list", <<>>, l)

\* repr of a list of strings: ['A', 'C']
ListRepr(l) == <<"[">> \o Join(<<",", " ">>, [ i \in DOMAIN l |-> <<"'">> \o l[i] \o <<"'">> ]) \o <<"]">>

\* str(v)
PyStr(v) ==
    CASE v.t = "str"  -> v.s
      [] v.t = "num"  -> v.s
      [] v.t = "list" -> ListRepr(v.l)
      [] OTHER        -> <<"N","o","n","e">>

\* bool(v); an absent key reads as None through dict.get
Truthy(v) ==
    CASE v.t = "str"  -> v.s # <<>>
      [] v.t = "num"  -> v.s # <<"0">>
      [] v.t = "list" -> v.l # <<>>
      [] OTHER        -> FALSE

\* a or b
PyOr(a, b) == IF Truthy(a) THEN a ELSE b

\* float(v) succeeds
IsNumericText(s) ==
    /\ Strip(s) # <<>>
    /\ \A i \in DOMAIN Strip(s) : InList(Strip(s)[i], DigitChars) \/ Strip(s)[i] = "."
    /\ Cardinality({ i \in DOMAIN Strip(s) : Strip(s)[i] = "." }) <= 1
    /\ \E i \in DOMAIN Strip(s) : InList(Strip(s)[i], DigitChars)

FloatOk(v) ==
    CASE v.t = "num" -> TRUE
      [] v.t = "str" -> IsNumericText(v.s)
      [] OTHER       -> FALSE

\* a JSON object's "fields" member: t = "dict" with the items in insertion
\* order, or another type
FieldsVal(t, items) == [t |-> t, items |-> items]
Item(k, v) == [k |-> k, v |-> v]

\* d.get(k, '')
DictGet(items, k) ==
    IF \E i \in DOMAIN items : items[i].k = k
    THEN items[CHOOSE i \in DOMAIN items : items[i].k = k].v
    ELSE StrV(<<>>)

HasKey(items, k) == \E i \in DOMAIN items : items[i].k = k

(* ------------------------------------------------------ issue templates *)
\* One item of a template's body as yaml.safe_load returns it.  id, label and
\* value are <<>> when the key is absent; an option entry is a mapping
\* (isdict) with or without a label, or a plain string.
FormItem(t, id, label, value, required, options) ==
    [type |-> t, id |-> id, label |-> label, value |-> value,
     required |-> required, options |-> options]
OptDict(label)  == [isdict |-> TRUE,  haslabel |-> TRUE,  label |-> label]
OptNoLabel      == [isdict |-> TRUE,  haslabel |-> FALSE, label |-> <<>>]
OptPlain(label) == [isdict |-> FALSE, haslabel |-> FALSE, label |-> label]

\* the item type as text (label falls back to it)
TypeText(t) ==
    CASE t = "markdown"   -> <<"m","a","r","k","d","o","w","n">>
      [] t = "input"      -> <<"i","n","p","u","t">>
      [] t = "textarea"   -> <<"t","e","x","t","a","r","e","a">>
      [] t = "dropdown"   -> <<"d","r","o","p","d","o","w","n">>
      [] t = "checkboxes" -> <<"c","h","e","c","k","b","o","x","e","s">>
      [] OTHER            -> <<>>

\* the characters of [a-z0-9]
SlugChars == Range(LowerChars) \cup Range(DigitChars)
IsSlugChar(c) == c \in SlugChars

\* re.sub(r'[^a-z0-9]+', '_', s): every maximal run of other characters
\* becomes one underscore
RECURSIVE SubNonAlnum(_, _)
SubNonAlnum(s, inrun) ==
    IF s = <<>> THEN <<>>
    ELSE IF IsSlugChar(s[1]) THEN <<s[1]>> \o SubNonAlnum(Tail(s), FALSE)
    ELSE IF inrun THEN SubNonAlnum(Tail(s), TRUE)
    ELSE <<"_">> \o SubNonAlnum(Tail(s), TRUE)

\* re.sub(r'[^a-z0-9]+', '_', label.lower()).strip('_')
\* (each of the three steps is computed once)
Slugify(label) ==
    CHOOSE slug \in { StripSet(subbed, {"_"}) :
                        subbed \in { SubNonAlnum(lowered, FALSE) :
                                       lowered \in { Lower(label) } } } : TRUE

Descriptor(t, key, label, required, hasopts, options) ==
    [type |-> t, key |-> key, label |-> label, required |-> required,
     hasopts |-> hasopts, options |-> options]

\* [o.get('label', '') for o in opts if isinstance(o, dict)]
OptionLabels(opts) ==
    LET dicts == SelectSeq(opts, LAMBDA o : o.isdict)
    IN  [ i \in DOMAIN dicts |-> IF dicts[i].haslabel THEN dicts[i].label ELSE <<>> ]

\* an empty slug is kept as the key: no f_N is generated
NormalizeItemNoFallback(item, n) ==
    IF item.type = "markdown"
    THEN Descriptor("markdown",
                    IF item.id # <<>> THEN item.id ELSE <<"m","d","_">> \o NumStr(n),
                    item.value, FALSE, FALSE, <<>>)
    ELSE LET label == IF item.label # <<>> THEN item.label ELSE TypeText(item.type)
         IN  Descriptor(item.type, IF item.id # <<>> THEN item.id ELSE Slugify(label),
                        label, item.required,
                        item.type \in {"dropdown", "checkboxes"},
                        IF item.type \in {"dropdown", "checkboxes"}
                        THEN OptionLabels(item.options) ELSE <<>>)

\* the descriptor _normalize_fields appends for one item when n descriptors
\* are already in the list
NormalizeItem(item, n) ==
    IF item.type = "markdown"
    THEN Descriptor("markdown",
                    IF item.id # <<>> THEN item.id ELSE <<"m","d","_">> \o NumStr(n),
                    item.value, FALSE, FALSE, <<>>)
    ELSE LET label == IF item.label # <<>> THEN item.label ELSE TypeText(item.type)
             slug  == Slugify(label)
             key   == IF item.id # <<>> THEN item.id
                      ELSE IF slug # <<>> THEN slug
                      ELSE <<"f","_">> \o NumStr(n)
         IN  Descriptor(item.type, key, label, item.required,
                        item.type \in {"dropdown", "checkboxes"},
                        IF item.type \in {"dropdown", "checkboxes"}
                        THEN OptionLabels(item.options) ELSE <<>>)

RECURSIVE NormalizeAcc(_, _)
NormalizeAcc(body, fields) ==
    IF body = <<>> THEN fields
    ELSE NormalizeAcc(Tail(body), Append(fields, NormalizeItem(body[1], Len(fields))))

\* markdown items are left out of the list
NormalizeFieldsNoMarkdown(tpl) ==
    NormalizeAcc(SelectSeq(tpl.body, LAMBDA it : it.type # "markdown"), <<>>)

\* _normalize_fields(template)
_normalize_fields(tpl) == NormalizeAcc(tpl.body, <<>>)

\* the templates of the modelled repository, in the order load_issue_templates
\* inserted them: t1 is a bug form, t2 a feature form whose dropdown declares
\* no options and whose checkboxes list their options as plain strings
TplBug ==
    [name |-> <<"B","u","g">>,
     body |-> << FormItem("markdown", <<>>, <<>>, <<"H","i">>, FALSE, <<>>),
                 FormItem("input", <<"s","t","e","p","s">>, <<"S","t","e","p","s">>, <<>>, TRUE, <<>>),
                 FormItem("dropdown", <<"s","e","v">>, <<"S","e","v">>, <<>>, FALSE,
                          <<OptDict(<<"A">>), OptDict(<<"B">>)>>),
                 FormItem("checkboxes", <<>>, <<"O","S">>, <<>>, FALSE,
                          <<OptDict(<<"A">>), OptDict(<<"C">>)>>) >>]
TplFeat ==
    [name |-> <<"F","e","a","t">>,
     body |-> << FormItem("textarea", <<>>, <<"U","s","e"," ","C","a","s","e">>, <<>>, FALSE, <<>>),
                 FormItem("dropdown", <<"s","e","v">>, <<"S","e","v">>, <<>>, FALSE, <<>>),
                 FormItem("checkboxes", <<>>, <<"O","S">>, <<>>, FALSE,
                          <<OptPlain(<<"A">>), OptPlain(<<"C">>)>>) >>]

KeyT1 == <<"t","1">>
KeyT2 == <<"t","2">>
Templates == << [key |-> KeyT1, tpl |-> TplBug], [key |-> KeyT2, tpl |-> TplFeat] >>

\* the listing of the valid keys loses its first entry
TemplateKeysSkipFirst(templates) == [ i \in 1..(Len(templates) - 1) |-> templates[i + 1].key ]

\* templates.keys()
TemplateKeys(templates) == [ i \in DOMAIN templates |-> templates[i].key ]
\* key in templates
InTemplates(templates, k) == \E i \in DOMAIN templates : templates[i].key = k
\* templates[key]
TemplateOf(templates, k) == templates[CHOOSE i \in DOMAIN templates : templates[i].key = k].tpl

\* schema[key] = {'name': tpl.get('name', key), 'fields': _normalize_fields(tpl)}
BuildSchema(templates) ==
    [ i \in DOMAIN templates |->
        [key |-> templates[i].key, name |-> templates[i].tpl.name,
         fields |-> _normalize_fields(templates[i].tpl)] ]

\* the schema classify_issue_with_ai builds once, before the loop
Schema == BuildSchema(Templates)

\* schema[key]['fields']
SchemaFields(schema, k) == schema[CHOOSE i \in DOMAIN schema : schema[i].key = k].fields

(* ------------------------------------- process_ai_issue: reply validation *)
\* A parsed reply object; a member with t = "absent" is not a key of the
\* object.  The first six members are those process_ai_issue reads, the last
\* three those ai_issue_analyze reads.
Candidate(type, priority, confidence, title, template_key, fields) ==
    [type |-> type, priority |-> priority, confidence |-> confidence,
     title |-> title, template_key |-> template_key, fields |-> fields,
     template_file |-> Absent, labels |-> Absent, markdown_body |-> Absent]
AnalyzeObject(template_file, title, labels, markdown_body) ==
    [type |-> Absent, priority |-> Absent, confidence |-> Absent,
     title |-> title, template_key |-> Absent, fields |-> FieldsVal("absent", <<>>),
     template_file |-> template_file, labels |-> labels, markdown_body |-> markdown_body]
NoObject == AnalyzeObject(Absent, Absent, Absent, Absent)

\* One reason of an error message.  r is the fixed wording, keys the keys the
\* text lists (valid template keys, or the missing field keys), offending the
\* rejected template_key, bad the rejected option values.
Reason(r, keys, offending, bad) == [r |-> r, keys |-> keys, offending |-> offending, bad |-> bad]
BadOption(k, v, invalid, opts) == [k |-> k, v |-> v, invalid |-> invalid, opts |-> opts]

\* an exception (or None): its class and the reasons its message joins
Err(kind, reasons) == [kind |-> kind, reasons |-> reasons]
NoError == Err("None", <<>>)

\* [f['key'] for f in fields if f.get('required') and f.get('type') != 'markdown']
RequiredKeys(fields) ==
    LET req == SelectSeq(fields, LAMBDA f : f.required /\ f.type # "markdown")
    IN  [ i \in DOMAIN req |-> req[i].key ]

\* a field that is left out counts as supplied: .get(k, k) instead of .get(k, '')
IsMissingValueDefaulted(items, k) == HasKey(items, k) /\ Strip(PyStr(DictGet(items, k))) = <<>>

\* not str(data['fields'].get(k, '')).strip()
IsMissingValue(items, k) == Strip(PyStr(DictGet(items, k))) = <<>>

\* [k for k in required if not str(data['fields'].get(k, '')).strip()]
MissingKeys(required, items) == SelectSeq(required, LAMBDA k : IsMissingValue(items, k))

\* by_key = {f['key']: f for f in fields}: the last descriptor of a key wins
HasMeta(fields, k) == \E i \in DOMAIN fields : fields[i].key = k
MetaOf(fields, k) ==
    fields[CHOOSE i \in DOMAIN fields :
              /\ fields[i].key = k
              /\ \A j \in DOMAIN fields : fields[j].key = k => j <= i]

\* the comparison without the strip
DropdownRejectsNoStrip(meta, v) == meta.options # <<>> /\ ~InList(PyStr(v), meta.options)

\* if meta.get('options') and str(v).strip() not in meta['options']
DropdownRejects(meta, v) == meta.options # <<>> /\ ~InList(Strip(PyStr(v)), meta.options)

\* vals = v if isinstance(v, list) else [s.strip() for s in str(v).split(',') if s.strip()]
CheckboxTokens(v) == IF v.t = "list" THEN v.l ELSE SplitTokens(PyStr(v))

\* only the first token is compared with the options
InvalidTokensFirstOnly(vals, options) ==
    SelectSeq(vals, LAMBDA x : options # <<>> /\ x = vals[1] /\ ~InList(x, options))

\* [x for x in vals if meta.get('options') and x not in meta['options']]
InvalidTokens(vals, options) ==
    SelectSeq(vals, LAMBDA x : options # <<>> /\ ~InList(x, options))

\* one item of data['fields'] adds an entry to bad_options
AddsBadOption(fields, it) ==
    /\ HasMeta(fields, it.k)
    /\ \/ MetaOf(fields, it.k).type = "dropdown" /\ DropdownRejects(MetaOf(fields, it.k), it.v)
       \/ /\ MetaOf(fields, it.k).type = "checkboxes"
          /\ InvalidTokens(CheckboxTokens(it.v), MetaOf(fields, it.k).options) # <<>>

\* the entry it adds: the key, the value, the rejected tokens (checkboxes)
\* and the declared options
BadOptionOf(fields, it) ==
    BadOption(it.k, it.v,
              IF MetaOf(fields, it.k).type = "checkboxes"
              THEN InvalidTokens(CheckboxTokens(it.v), MetaOf(fields, it.k).options) ELSE <<>>,
              MetaOf(fields, it.k).options)

\* the loop over data['fields'].items() that fills bad_options
BadOptions(fields, items) ==
    LET rejected == SelectSeq(items, LAMBDA it : AddsBadOption(fields, it))
    IN  [ i \in DOMAIN rejected |-> BadOptionOf(fields, rejected[i]) ]

\* only the first kind of field violation is reported
FieldReasonsFirstOnly(missing, bad) ==
    IF missing # <<>> THEN <<Reason("missing required fields", missing, <<>>, <<>>)>>
    ELSE IF bad # <<>> THEN <<Reason("invalid option values", <<>>, <<>>, bad)>>
    ELSE <<>>

\* the reasons of the ValueError raised when missing or bad_options is non-empty
FieldReasons(missing, bad) ==
    (IF missing # <<>> THEN <<Reason("missing required fields", missing, <<>>, <<>>)>> ELSE <<>>)
    \o (IF bad # <<>> THEN <<Reason("invalid option values", <<>>, <<>>, bad)>> ELSE <<>>)

\* The checks of the try block on the parsed object: "basic validation
\* presence and types", required fields, options.  The result is NoError when
\* the object is accepted (parsed = data), else the exception raised.
ValidateData(data, templates, schema) ==
    IF data.fields.t # "dict"
    THEN Err("ValueError", <<Reason("Missing or invalid fields", <<>>, <<>>, <<>>)>>)
    ELSE IF data.type.t = "absent" \/ data.priority.t = "absent"
    THEN Err("ValueError", <<Reason("Missing type or priority", <<>>, <<>>, <<>>)>>)
    ELSE IF data.template_key.t = "absent" \/ ~Truthy(data.template_key)
    THEN Err("ValueError", <<Reason("Missing template_key", TemplateKeys(templates), <<>>, <<>>)>>)
    ELSE IF ~InTemplates(templates, PyStr(data.template_key))
    THEN Err("ValueError", <<Reason("Invalid template_key", TemplateKeys(templates),
                                    PyStr(data.template_key), <<>>)>>)
    ELSE LET fields  == SchemaFields(schema, PyStr(data.template_key))
             missing == MissingKeys(RequiredKeys(fields), data.fields.items)
             bad     == BadOptions(fields, data.fields.items)
         IN  IF missing # <<>> \/ bad # <<>>
             THEN Err("ValueError", FieldReasons(missing, bad))
             ELSE NoError

(* --------------------------------- process_ai_issue: after the retry loop *)
TypeSet == { <<"b","u","g">>, <<"e","n","h","a","n","c","e","m","e","n","t">>, <<"f","e","a","t","u","r","e">>, <<"q","u","e","s","t","i","o","n">> }
PrioritySet == { <<"p","0">>, <<"p","1">>, <<"p","2">>, <<"p","3">>, <<"p","4">> }

\* label_map.get(itype, 'needs-triage')
LabelsCsv(itype) ==
    CASE itype = <<"b","u","g">>         -> <<"b","u","g",",","n","e","e","d","s","-","t","r","i","a","g","e">>
      [] itype = <<"e","n","h","a","n","c","e","m","e","n","t">> -> <<"e","n","h","a","n","c","e","m","e","n","t",",","n","e","e","d","s","-","t","r","i","a","g","e">>
      [] itype = <<"f","e","a","t","u","r","e">>     -> <<"f","e","a","t","u","r","e","-","r","e","q","u","e","s","t",",","n","e","e","d","s","-","t","r","i","a","g","e">>
      [] itype = <<"q","u","e","s","t","i","o","n">>    -> <<"q","u","e","s","t","i","o","n",",","n","e","e","d","s","-","t","r","i","a","g","e">>
      [] OTHER                 -> <<"n","e","e","d","s","-","t","r","i","a","g","e">>

\* the value classify_issue_with_ai returns: (itype, prio, labels, title,
\* structured), structured repeating type, priority, title with template_key
\* and fields
Returned(type, priority, labels, title, template_key, fields) ==
    [type |-> type, priority |-> priority, labels |-> labels, title |-> title,
     template_key |-> template_key, fields |-> fields]
NoReturn == Returned(<<>>, <<>>, <<>>, <<>>, <<>>, <<>>)

\* data.get(key, default) for a string default
GetOr(v, default) == IF v.t = "absent" THEN StrV(default) ELSE v

\* title = str(data.get('title') or original_title or '').strip()
\* if not title: title = original_title or 'Issue'
PostTitle(data, issue_title) ==
    LET t == Strip(PyStr(PyOr(data.title, PyOr(StrV(issue_title), StrV(<<>>)))))
    IN  IF t # <<>> THEN t
        ELSE IF issue_title # <<>> THEN issue_title ELSE <<"I","s","s","u","e">>

\* the priority of the reply is returned as it is
PostPriorityKept(data) == Lower(PyStr(GetOr(data.priority, <<"p","2">>)))

\* prio = str(data.get('priority', 'p2')).lower(); if prio not in {...}: prio = 'p2'
PostPriority(data) ==
    LET prio == Lower(PyStr(GetOr(data.priority, <<"p","2">>)))
    IN  IF prio \in PrioritySet THEN prio ELSE <<"p","2">>

\* "Parse validated data": what classify_issue_with_ai does with parsed after
\* the loop; it raises (raised, exc) or returns (ret)
PostProcess(data, issue_title, templates) ==
    LET itype == Lower(PyStr(GetOr(data.type, <<"f","e","a","t","u","r","e">>)))
        template_key == Strip(PyStr(PyOr(data.template_key, StrV(<<>>))))
        fields == IF data.fields.t = "dict" THEN data.fields.items ELSE <<>>
    IN  IF data.confidence.t # "absent" /\ ~FloatOk(data.confidence)
        THEN [raised |-> TRUE, ret |-> NoReturn,
              exc |-> Err("ValueError", <<Reason("could not convert to float", <<>>, <<>>, <<>>)>>)]
        ELSE IF itype \notin TypeSet
        THEN [raised |-> TRUE, ret |-> NoReturn,
              exc |-> Err("ValueError", <<Reason("Invalid type", <<>>, itype, <<>>)>>)]
        ELSE IF template_key = <<>> \/ ~InTemplates(templates, template_key)
        THEN [raised |-> TRUE, ret |-> NoReturn,
              exc |-> Err("ValueError", <<Reason("Invalid template_key", <<>>, template_key, <<>>)>>)]
        ELSE [raised |-> FALSE, exc |-> NoError,
              ret |-> Returned(itype, PostPriority(data), LabelsCsv(itype),
                               PostTitle(data, issue_title), template_key, fields)]

(* ------------------------------- process_ai_issue: rendering the body *)
\* json.dumps(v, ensure_ascii=False) of a value that is not a string
JsonDumps(v) ==
    CASE v.t = "num"  -> v.s
      [] v.t = "list" -> <<"[">> \o Join(<<",", " ">>, [ i \in DOMAIN v.l |-> <<"\"">> \o v.l[i] \o <<"\"">> ]) \o <<"]">>
      [] v.t = "str"  -> <<"\"">> \o v.s \o <<"\"">>
      [] OTHER        -> <<"n","u","l","l">>

\* key = item.get('id') or re.sub(...).strip('_'): the key under which the
\* renderer looks a value up
RenderKey(item) ==
    IF item.id # <<>> THEN item.id
    ELSE Slugify(IF item.label # <<>> THEN item.label ELSE TypeText(item.type))

\* lbl = opt.get('label') if isinstance(opt, dict) else str(opt)
OptionText(opt) == IF opt.isdict /\ ~opt.haslabel THEN <<>> ELSE opt.label

\* the lines of a checkboxes section: one per option with a non-empty text
CheckboxLines(options, selected) ==
    LET shown == SelectSeq(options, LAMBDA o : OptionText(o) # <<>>)
    IN  [ i \in DOMAIN shown |->
            <<"-", " ", "[">> \o (IF InList(OptionText(shown[i]), selected) THEN <<"x">> ELSE <<" ">>)
            \o <<"]", " ">> \o OptionText(shown[i]) ]

\* section = f"## {label}\n" + "\n".join(lines) for checkboxes, else
\* f"## {label}\n{value}" with value the stripped string or JSON text
\* (selected and lines are computed once, as the code's locals are)
RenderField(t, label, options, value_raw) ==
    IF t = "checkboxes"
    THEN CHOOSE section \in
             { <<"#", "#", " ">> \o label \o <<"\n">> \o Join(<<"\n">>, lines) :
                 lines \in { CheckboxLines(options, selected) :
                               selected \in { CheckboxTokens(value_raw) } } } : TRUE
    ELSE <<"#", "#", " ">> \o label \o <<"\n">>
         \o Strip(IF value_raw.t = "str" THEN value_raw.s ELSE JsonDumps(value_raw))

\* a field without a value is left out of the text
RenderItemOmitEmpty(item, fields) ==
    IF item.type = "markdown" THEN item.value
    ELSE CHOOSE section \in
             { IF value_raw = StrV(<<>>) THEN <<>>
               ELSE RenderField(item.type, label, item.options, value_raw) :
                 label \in { IF item.label # <<>> THEN item.label ELSE TypeText(item.type) },
                 value_raw \in { DictGet(fields, key) : key \in { RenderKey(item) } } } : TRUE

\* the block generate_formatted_content appends for one item of the body
\* (<<>> when it appends nothing; label and value_raw are computed once)
RenderItem(item, fields) ==
    IF item.type = "markdown" THEN item.value
    ELSE CHOOSE section \in
             { RenderField(item.type, label, item.options, value_raw) :
                 label \in { IF item.label # <<>> THEN item.label ELSE TypeText(item.type) },
                 value_raw \in { DictGet(fields, key) : key \in { RenderKey(item) } } } : TRUE

\* "## Screenshots" and one embedded image per reference
RenderImages(imgs) ==
    <<"#","#"," ","S","c","r","e","e","n","s","h","o","t","s","\n">>
    \o Join(<<"\n">>, [ i \in DOMAIN imgs |-> <<"!","[","i","m","a","g","e","]","(">> \o imgs[i] \o <<")">> ])

\* the list out at the return of generate_formatted_content: one block per
\* item, none for a markdown item without text, then the screenshots (a
\* field's block is never empty, so dropping the empty entries leaves out
\* exactly the markdown items without text)
RenderOut(tpl, fields, imgs) ==
    DropEmpty([ i \in DOMAIN tpl.body |-> RenderItem(tpl.body[i], fields) ])
    \o (IF imgs # <<>> THEN <<RenderImages(imgs)>> ELSE <<>>)

\* generate_formatted_content(template, fields, images)
\* (the list out is built once and then joined)
generate_formatted_content(tpl, fields, imgs) ==
    CHOOSE text \in { Join(<<"\n", "\n">>, DropEmpty(blocks)) :
                        blocks \in { RenderOut(tpl, fields, imgs) } } : TRUE

(* ------------------------------------ ai_issue_analyze: reply validation *)
TemplateFiles == { <<"b","u","g",".","y","m","l">>, <<"f","e","a","t",".","y","m","l">> }
RepoLabels == { <<"t","y","p","e",":","b","u","g">>, <<"t","y","p","e",":","q","u","e","s","t","i","o","n">>, <<"a","i",":","t","r","i","a","g","e">>, <<"a","r","e","a",":","u","i">>, <<"t","y","p","e",":","d","o","c","s">> }
TypeCandidates == { <<"t","y","p","e",":","b","u","g">>, <<"t","y","p","e",":","f","e","a","t","u","r","e">>, <<"t","y","p","e",":","e","n","h","a","n","c","e","m","e","n","t">>, <<"t","y","p","e",":","q","u","e","s","t","i","o","n">> }

AnalyzeSchema == <<"template_file", "title", "labels", "markdown_body">>
Member(obj, k) ==
    CASE k = "template_file" -> obj.template_file
      [] k = "title"         -> obj.title
      [] k = "labels"        -> obj.labels
      [] OTHER               -> obj.markdown_body

\* validate_result(obj, allowed_templates, repo_labels): NoError, or the
\* ValueError of the first failed check
\* the check of 'ai:triage' is left out
ValidateResultNoTriage(obj, allowed_templates, repo_labels) ==
    LET labels_set == Range(obj.labels.l)
        V(r) == Err("ValueError", <<Reason(r, <<>>, <<>>, <<>>)>>)
    IN  IF \E i \in DOMAIN AnalyzeSchema : Member(obj, AnalyzeSchema[i]).t = "absent"
        THEN V("Missing key")
        ELSE IF obj.template_file.t # "str" \/ obj.template_file.s \notin allowed_templates
        THEN V("template_file must be one of")
        ELSE IF obj.title.t # "str" \/ Strip(obj.title.s) = <<>>
        THEN V("title must be a non-empty string")
        ELSE IF obj.markdown_body.t # "str" \/ Strip(obj.markdown_body.s) = <<>>
        THEN V("markdown_body must be a non-empty string")
        ELSE IF obj.labels.t # "list"
        THEN V("labels must be an array of strings")
        ELSE IF ~(labels_set \subseteq repo_labels)
        THEN V("labels contain unknown values")
        ELSE IF Cardinality(labels_set \cap TypeCandidates) # 1
        THEN V("labels must include exactly ONE of type")
        ELSE NoError

validate_result(obj, allowed_templates, repo_labels) ==
    LET labels_set == Range(obj.labels.l)
        V(r) == Err("ValueError", <<Reason(r, <<>>, <<>>, <<>>)>>)
    IN  IF \E i \in DOMAIN AnalyzeSchema : Member(obj, AnalyzeSchema[i]).t = "absent"
        THEN V("Missing key")
        ELSE IF obj.template_file.t # "str" \/ obj.template_file.s \notin allowed_templates
        THEN V("template_file must be one of")
        ELSE IF obj.title.t # "str" \/ Strip(obj.title.s) = <<>>
        THEN V("title must be a non-empty string")
        ELSE IF obj.markdown_body.t # "str" \/ Strip(obj.markdown_body.s) = <<>>
        THEN V("markdown_body must be a non-empty string")
        ELSE IF obj.labels.t # "list"
        THEN V("labels must be an array of strings")
        ELSE IF ~(labels_set \subseteq repo_labels)
        THEN V("labels contain unknown values")
        ELSE IF Cardinality(labels_set \cap TypeCandidates) # 1
        THEN V("labels must include exactly ONE of type")
        ELSE IF <<"a","i",":","t","r","i","a","g","e">> \in labels_set
        THEN V("labels must NOT include 'ai:triage'")
        ELSE NoError

(* ---------------------------------------------------------- model replies *)
\* What one model invocation gives: the call raises (err), or it returns a
\* text.  A text is a sequence of segments: prose without braces, the text of
\* a JSON object (obj, with the object it parses to), or a brace-delimited
\* text that is not JSON (junk).
Seg(k, c) == [k |-> k, c |-> c]
Prose == Seg("prose", NoObject)
Junk  == Seg("junk", NoObject)
ObjSeg(c) == Seg("obj", c)
Reply(err, segs) == [err |-> err, segs |-> segs]

IsBrace(seg) == seg.k \in {"obj", "junk"}

\* m = re.search(r'\{[\s\S]*\}', result): greedy, from the first opening
\* brace to the last closing brace
HasMatch(segs) == \E i \in DOMAIN segs : IsBrace(segs[i])
FirstBrace(segs) == CHOOSE i \in DOMAIN segs : IsBrace(segs[i]) /\ \A j \in DOMAIN segs : IsBrace(segs[j]) => i <= j
LastBrace(segs)  == CHOOSE i \in DOMAIN segs : IsBrace(segs[i]) /\ \A j \in DOMAIN segs : IsBrace(segs[j]) => j <= i
MatchGroup(segs) == SubSeq(segs, FirstBrace(segs), LastBrace(segs))

\* json.loads(text) returns an object
JsonLoadsOk(segs) == Len(segs) = 1 /\ segs[1].k = "obj"

\* strict_load_json(s): the object, or None (ok = FALSE)
strict_load_json(segs) ==
    IF JsonLoadsOk(segs) THEN [ok |-> TRUE, obj |-> segs[1].c]
    ELSE [ok |-> FALSE, obj |-> NoObject]

\* a reply that does not parse is handed to the checks as an empty object
ParseAndValidateLenient(segs, templates, schema) ==
    IF ~HasMatch(segs) \/ ~JsonLoadsOk(MatchGroup(segs))
    THEN ValidateData(NoObject, templates, schema)
    ELSE ValidateData(MatchGroup(segs)[1].c, templates, schema)

\* The whole try block of one attempt on a non-empty result: extraction,
\* json.loads and the checks.  NoError means parsed = data.
ParseAndValidate(segs, templates, schema) ==
    IF ~HasMatch(segs)
    THEN Err("ValueError", <<Reason("No JSON object found in AI response", <<>>, <<>>, <<>>)>>)
    ELSE IF ~JsonLoadsOk(MatchGroup(segs))
    THEN Err("JSONDecodeError", <<Reason("json.loads failed", <<>>, <<>>, <<>>)>>)
    ELSE ValidateData(MatchGroup(segs)[1].c, templates, schema)

(* ------------------------------------------------------------- the inputs *)
KeySteps == <<"s","t","e","p","s">>
KeySev   == <<"s","e","v">>
KeyOs    == <<"o","s">>

\* a reply object that passes every check against template t1
GoodObject ==
    Candidate(StrV(<<"b","u","g">>), StrV(<<"p","1">>), NumV(<<"1">>), StrV(<<"T">>), StrV(KeyT1),
              FieldsVal("dict", <<Item(KeySteps, StrV(<<"A">>)), Item(KeySev, StrV(<<"A">>))>>))

\* the replies the model may give to process_ai_issue on any attempt
ProcessReplies ==
    { Reply(TRUE, <<>>),
      Reply(FALSE, <<>>),
      Reply(FALSE, <<Prose>>),
      Reply(FALSE, <<Junk>>),
      Reply(FALSE, <<ObjSeg(GoodObject)>>),
      Reply(FALSE, <<Prose, ObjSeg(GoodObject), Prose>>),
      Reply(FALSE, <<ObjSeg(GoodObject), Prose, ObjSeg(GoodObject)>>),
      Reply(FALSE, <<ObjSeg([GoodObject EXCEPT !.type = Absent])>>),
      Reply(FALSE, <<ObjSeg([GoodObject EXCEPT !.type = StrV(<<"f","o","o">>)])>>),
      Reply(FALSE, <<ObjSeg([GoodObject EXCEPT !.priority = StrV(<<"p","9">>)])>>),
      Reply(FALSE, <<ObjSeg([GoodObject EXCEPT !.title = Absent])>>),
      Reply(FALSE, <<ObjSeg([GoodObject EXCEPT !.confidence = StrV(<<"x">>)])>>),
      Reply(FALSE, <<ObjSeg([GoodObject EXCEPT !.template_key = StrV(<<"z","z">>)])>>),
      Reply(FALSE, <<ObjSeg([GoodObject EXCEPT !.fields = FieldsVal("dict", <<>>)])>>),
      Reply(FALSE, <<ObjSeg([GoodObject EXCEPT !.fields = FieldsVal("dict", <<Item(KeySteps, Null)>>)])>>),
      Reply(FALSE, <<ObjSeg([GoodObject EXCEPT !.fields = FieldsVal("dict", <<Item(KeySev, StrV(<<"a">>))>>)])>>),
      Reply(FALSE, <<ObjSeg([GoodObject EXCEPT !.fields =
                        FieldsVal("dict", <<Item(KeySteps, StrV(<<"A">>)), Item(KeySev, StrV(<<" ","A">>))>>)])>>),
      Reply(FALSE, <<ObjSeg([GoodObject EXCEPT !.type = Absent, !.template_key = StrV(<<"z","z">>),
                                               !.fields = FieldsVal("list", <<>>)])>>) }

\* a reply object that passes validate_result
GoodAnalysis ==
    AnalyzeObject(StrV(<<"b","u","g",".","y","m","l">>), StrV(<<"T">>), ListV(<<<<"t","y","p","e",":","b","u","g">>>>), StrV(<<"B">>))

\* the replies the model may give to ai_issue_analyze on any attempt
AnalyzeReplies ==
    { Reply(TRUE, <<>>),
      Reply(FALSE, <<>>),
      Reply(FALSE, <<Prose>>),
      Reply(FALSE, <<ObjSeg(GoodAnalysis)>>),
      Reply(FALSE, <<Prose, ObjSeg(GoodAnalysis)>>),
      Reply(FALSE, <<ObjSeg([GoodAnalysis EXCEPT !.template_file = StrV(<<"z","z",".","y","m","l">>)])>>),
      Reply(FALSE, <<ObjSeg([GoodAnalysis EXCEPT !.title = StrV(<<" ">>)])>>),
      Reply(FALSE, <<ObjSeg([GoodAnalysis EXCEPT !.markdown_body = Absent])>>),
      Reply(FALSE, <<ObjSeg([GoodAnalysis EXCEPT !.labels = ListV(<<<<"t","y","p","e",":","b","u","g">>, <<"a","i",":","t","r","i","a","g","e">>>>)])>>),
      Reply(FALSE, <<ObjSeg([GoodAnalysis EXCEPT !.labels = ListV(<<<<"t","y","p","e",":","b","u","g">>, <<"t","y","p","e",":","d","o","c","s">>>>)])>>) }

Replies(s) == IF s = "process" THEN ProcessReplies ELSE AnalyzeReplies

\* the issue titles of the event
Titles == { <<>>, <<"O">> }

\* the provider keys of the environment
Providers == {"openai", "deepseek", "anthropic"}

\* the values a reply may give one field
FieldValues ==
    { StrV(x) : x \in StringsUpTo({"A", " "}, MaxValLen) }
    \cup { StrV(<<"a">>), StrV(<<"B">>), Null, NumV(<<"7">>), ListV(<<>>) }

\* the values a reply may give the checkboxes field os
CheckboxValues ==
    { StrV(<<>>), StrV(<<"A">>), StrV(<<"A",",","C">>), StrV(<<"A",","," ","C">>),
      StrV(<<"A",",","B">>), StrV(<<"A",",">>), StrV(<<"a">>),
      ListV(<<>>), ListV(<< <<"A">>, <<"C">> >>), ListV(<< <<"A">>, <<"B">> >>),
      ListV(<< <<" ","A">> >>), Null, NumV(<<"7">>) }

\* the "fields" members of the objects the validation is checked on: not a
\* mapping, a mapping giving steps and sev a value or leaving them out, or a
\* mapping giving os a value
FieldsSpace ==
    { FieldsVal("absent", <<>>), FieldsVal("list", <<>>) }
    \cup { FieldsVal("dict", a \o b) :
             a \in {<<>>} \cup { <<Item(KeySteps, v)>> : v \in FieldValues },
             b \in {<<>>} \cup { <<Item(KeySev, v)>> : v \in FieldValues } }
    \cup { FieldsVal("dict", a \o <<Item(KeyOs, v)>>) :
             a \in {<<>>, <<Item(KeySteps, StrV(<<"A">>))>>}, v \in CheckboxValues }

\* the reply objects the validation is checked on
ObjectSpace ==
    { Candidate(ty, pr, NumV(<<"1">>), ti, tk, f) :
        ty \in { Absent, StrV(<<"b","u","g">>), StrV(<<"f","o","o">>) },
        pr \in { Absent, StrV(<<"p","1">>), StrV(<<"p","9">>) },
        ti \in { Absent, StrV(<<"T">>) },
        tk \in { Absent, StrV(KeyT1), StrV(KeyT2), StrV(<<"z","z">>) },
        f  \in FieldsSpace }

(* -------------------------------------------------------------- the state *)
VARIABLES
    script,          \* which script runs: "process" or "analyze"
    configured,      \* the providers whose API key is set in the environment
    original_title,  \* the issue title of the event
    pc,              \* the position of the run
    provider,        \* the provider _select_single_provider returned
    attempt,         \* the loop variable of the retry loop
    messages,        \* the conversation
    result,          \* the text of the last reply (<<>> is None or '')
    last_error,      \* last_error of classify_issue_with_ai
    parsed,          \* the accepted reply object
    invoked,         \* the provider of every model invocation made so far
    sent,            \* the conversation passed to each invocation
    errs,            \* the outcome of every attempt ended so far
    exc,             \* the exception or exit that ended the run
    exc_reply,       \* the reply text the failure report carries
    ret,             \* the value classify_issue_with_ai returned
    output,          \* the step outputs written (process) or the result saved (analyze)
    template,        \* the template document being normalized or rendered
    values,          \* the field values being rendered
    images,          \* the image references being rendered
    descriptors,     \* the descriptors _normalize_fields returned
    out,             \* the blocks generate_formatted_content collected
    rendered,        \* the text generate_formatted_content returned
    outfile,         \* the text of the file named by GITHUB_OUTPUT
    parsed_data,     \* what parse_github_output returned
    result_json,     \* the object issue_apply_update loaded from JSON_PATH
    event_labels,    \* the labels of the issue in the event payload
    issue,           \* the issue on GitHub: title, body and labels
    repo_names,      \* the label names list_repo_labels returns
    requests         \* the mutating requests issue_apply_update has sent

\* the variables of the normalizer and of the renderer
tvars == <<template, values, images, descriptors, out, rendered>>

\* the variables of the output file and of its reader
fvars == <<outfile, parsed_data>>

\* the variables of issue_apply_update
avars == <<result_json, event_labels, issue, repo_names, requests>>

vars == <<script, configured, original_title, pc, provider, attempt, messages,
          result, last_error, parsed, invoked, sent, errs, exc, exc_reply, ret,
          output, template, values, images, descriptors, out, rendered,
          outfile, parsed_data, result_json, event_labels, issue, repo_names, requests>>

\* what main writes to the file named by GITHUB_OUTPUT
StepOutput(issue_type, priority, labels, suggested_title, formatted_content) ==
    [kind |-> "step", issue_type |-> issue_type, priority |-> priority, labels |-> labels,
     suggested_title |-> suggested_title, formatted_content |-> formatted_content,
     obj |-> NoObject]
\* what ai_issue_analyze saves: the result file, named by the json_path output
SavedResult(obj) ==
    [kind |-> "saved", issue_type |-> <<>>, priority |-> <<>>, labels |-> <<>>,
     suggested_title |-> <<>>, formatted_content |-> <<>>, obj |-> obj]
NoOutput ==
    [kind |-> "none", issue_type |-> <<>>, priority |-> <<>>, labels |-> <<>>,
     suggested_title |-> <<>>, formatted_content |-> <<>>, obj |-> NoObject]

\* the keys of the step outputs
OutputKey ==
    [issue_type |-> <<"i","s","s","u","e","_","t","y","p","e">>,
     priority |-> <<"p","r","i","o","r","i","t","y">>,
     labels |-> <<"l","a","b","e","l","s">>,
     suggested_title |-> <<"s","u","g","g","e","s","t","e","d","_","t","i","t","l","e">>,
     formatted_content |-> <<"f","o","r","m","a","t","t","e","d","_","c","o","n","t","e","n","t">>]

\* the text main appends to the file named by GITHUB_OUTPUT
OutputText(o) ==
    OutputKey.issue_type \o <<"=">> \o o.issue_type \o <<"\n">>
    \o OutputKey.priority \o <<"=">> \o o.priority \o <<"\n">>
    \o OutputKey.labels \o <<"=">> \o o.labels \o <<"\n">>
    \o OutputKey.suggested_title \o <<"=">> \o o.suggested_title \o <<"\n">>
    \o OutputKey.formatted_content \o <<"<","<","E","O","F","\n">>
    \o o.formatted_content
    \o <<"\n","E","O","F","\n">>

\* an issue on GitHub
Issue(title, body, labels) == [title |-> title, body |-> body, labels |-> labels]

\* no template document
NoTemplate == [name |-> <<>>, body |-> <<>>]

\* the image references extract_issue_content finds in the issue body
ImageLists == { <<>>, << <<"u">> >> }

Msg(role, kind, text, err) == [role |-> role, kind |-> kind, text |-> text, err |-> err]
\* messages = [system_msg, user_msg]
InitialMessages == << Msg("system", "instructions", <<>>, NoError),
                      Msg("user", "request", <<>>, NoError) >>
\* the corrective message quotes only the first reason of the error
CorrectiveFirstReason(text, e) ==
    << Msg("assistant", "reply", text, NoError),
       Msg("user", "correction", <<>>, Err(e.kind, SubSeq(e.reasons, 1, 1))) >>

\* the two messages appended after a failed attempt: the raw reply, then the
\* corrective message quoting str(last_error)
Corrective(text, e) == << Msg("assistant", "reply", text, NoError),
                          Msg("user", "correction", <<>>, e) >>

Init ==
    /\ script \in {"process", "analyze"}
    /\ configured \in SUBSET Providers
    /\ original_title \in Titles
    /\ pc = "start"
    /\ provider = "none"
    /\ attempt = 0
    /\ messages = <<>>
    /\ result = <<>>
    /\ last_error = NoError
    /\ parsed = NoObject
    /\ invoked = <<>>
    /\ sent = <<>>
    /\ errs = <<>>
    /\ exc = NoError
    /\ exc_reply = <<>>
    /\ ret = NoReturn
    /\ output = NoOutput
    /\ template = NoTemplate
    /\ values = <<>>
    /\ images = <<>>
    /\ descriptors = <<>>
    /\ out = <<>>
    /\ rendered = <<>>
    /\ outfile = <<>>
    /\ parsed_data = <<>>
    /\ result_json = NoObject
    /\ event_labels = {}
    /\ issue = Issue(<<>>, <<>>, {})
    /\ repo_names = {}
    /\ requests = <<>>

(* -------------------------------- process_ai_issue: classify_issue_with_ai *)
\* providers = _require_providers(): which providers are available
_require_providers(env) == [ p \in Providers |-> p \in env ]

\* user_prompt is not a name of classify_issue_with_ai (only
\* _build_user_prompt is), so evaluating the arguments of a legacy provider
\* call raises NameError before the call is made
UserPromptBound == FALSE

\* the provider calls of the "Try OpenAI first" block that follows the loop
LegacyCalls(providers, res) ==
    LET openai   == providers["openai"] /\ UserPromptBound
        deepseek == ~openai /\ res = <<>> /\ providers["deepseek"] /\ UserPromptBound
        claude   == ~openai /\ ~deepseek /\ res = <<>> /\ providers["anthropic"] /\ UserPromptBound
    IN  (IF openai THEN <<"openai">> ELSE <<>>)
        \o (IF deepseek THEN <<"deepseek">> ELSE <<>>)
        \o (IF claude THEN <<"anthropic">> ELSE <<>>)

\* the first configured provider is taken when several are configured
SelectProviderFirst ==
    /\ script = "process"
    /\ pc = "start"
    /\ IF configured = {}
       THEN /\ pc' = "exit"
            /\ exc' = Err("SystemExit", <<Reason("Configure exactly one provider", <<>>, <<>>, <<>>)>>)
            /\ UNCHANGED <<provider, attempt, messages>>
       ELSE \E importable \in BOOLEAN :
            IF ~importable
            THEN /\ pc' = "exit"
                 /\ exc' = Err("SystemExit", <<Reason("required package missing", <<>>, <<>>, <<>>)>>)
                 /\ UNCHANGED <<provider, attempt, messages>>
            ELSE /\ provider' = CHOOSE p \in configured : TRUE
                 /\ messages' = InitialMessages
                 /\ attempt' = 1
                 /\ pc' = "call"
                 /\ exc' = exc
    /\ UNCHANGED <<avars, fvars, tvars, output, script, configured, original_title, result, last_error, parsed,
                   invoked, sent, errs, exc_reply, ret>>

\* _select_single_provider() and the construction of the conversation;
\* importable tells whether the client package of the provider can be
\* imported
SelectProvider ==
    /\ script = "process"
    /\ pc = "start"
    /\ IF Cardinality(configured) # 1
       THEN /\ pc' = "exit"
            /\ exc' = Err("SystemExit", <<Reason("Configure exactly one provider", <<>>, <<>>, <<>>)>>)
            /\ UNCHANGED <<provider, attempt, messages>>
       ELSE \E importable \in BOOLEAN :
            IF ~importable
            THEN /\ pc' = "exit"
                 /\ exc' = Err("SystemExit", <<Reason("required package missing", <<>>, <<>>, <<>>)>>)
                 /\ UNCHANGED <<provider, attempt, messages>>
            ELSE /\ provider' = CHOOSE p \in configured : TRUE
                 /\ messages' = InitialMessages
                 /\ attempt' = 1
                 /\ pc' = "call"
                 /\ exc' = exc
    /\ UNCHANGED <<avars, fvars, tvars, output, script, configured, original_title, result, last_error, parsed,
                   invoked, sent, errs, exc_reply, ret>>

\* a loop that runs once more than its bound: range(1, 5)
NextIterationExtra(max) ==
    IF attempt < max + 1
    THEN attempt' = attempt + 1 /\ pc' = "call"
    ELSE attempt' = attempt /\ pc' = "after_loop"

\* the end of one iteration of "for attempt in range(1, 4)"
NextIteration(max) ==
    IF attempt < max
    THEN attempt' = attempt + 1 /\ pc' = "call"
    ELSE attempt' = attempt /\ pc' = "after_loop"

\* after a provider failure the next call goes to another provider
CallModelFallback ==
    /\ script = "process"
    /\ pc = "call"
    /\ \E r \in ProcessReplies :
         /\ invoked' = Append(invoked,
                              IF errs # <<>> /\ errs[Len(errs)].kind = "ProviderError"
                              THEN CHOOSE p \in Providers : p # provider
                              ELSE provider)
         /\ sent' = Append(sent, messages)
         /\ IF r.err
            THEN /\ last_error' = Err("ProviderError", <<Reason("provider call failed", <<>>, <<>>, <<>>)>>)
                 /\ errs' = Append(errs, Err("ProviderError", <<Reason("provider call failed", <<>>, <<>>, <<>>)>>))
                 /\ NextIteration(MaxAttempts)
                 /\ UNCHANGED result
            ELSE /\ result' = r.segs
                 /\ pc' = "validate"
                 /\ UNCHANGED <<last_error, errs, attempt>>
    /\ UNCHANGED <<avars, fvars, tvars, output, script, configured, original_title, provider, messages, parsed,
                   exc, exc_reply, ret>>

\* result = call_model(messages), with its except branch
\* a failed call is answered like an invalid reply: the corrective messages
\* are appended
CallModelCorrects ==
    /\ script = "process"
    /\ pc = "call"
    /\ \E r \in ProcessReplies :
         /\ invoked' = Append(invoked, provider)
         /\ sent' = Append(sent, messages)
         /\ IF r.err
            THEN /\ last_error' = Err("ProviderError", <<Reason("provider call failed", <<>>, <<>>, <<>>)>>)
                 /\ errs' = Append(errs, Err("ProviderError", <<Reason("provider call failed", <<>>, <<>>, <<>>)>>))
                 /\ messages' = messages \o Corrective(<<>>, Err("ProviderError", <<Reason("provider call failed", <<>>, <<>>, <<>>)>>))
                 /\ NextIteration(MaxAttempts)
                 /\ UNCHANGED result
            ELSE /\ result' = r.segs
                 /\ pc' = "validate"
                 /\ UNCHANGED <<last_error, errs, attempt, messages>>
    /\ UNCHANGED <<avars, fvars, tvars, output, script, configured, original_title, provider, parsed,
                   exc, exc_reply, ret>>

CallModel ==
    /\ script = "process"
    /\ pc = "call"
    /\ \E r \in ProcessReplies :
         /\ invoked' = Append(invoked, provider)
         /\ sent' = Append(sent, messages)
         /\ IF r.err
            THEN /\ last_error' = Err("ProviderError", <<Reason("provider call failed", <<>>, <<>>, <<>>)>>)
                 /\ errs' = Append(errs, Err("ProviderError", <<Reason("provider call failed", <<>>, <<>>, <<>>)>>))
                 /\ NextIteration(MaxAttempts)
                 /\ UNCHANGED result
            ELSE /\ result' = r.segs
                 /\ pc' = "validate"
                 /\ UNCHANGED <<last_error, errs, attempt>>
    /\ UNCHANGED <<avars, fvars, tvars, output, script, configured, original_title, provider, messages, parsed,
                   exc, exc_reply, ret>>

\* the conversation is rebuilt for every retry: the corrective messages
\* follow the two initial messages and the earlier corrections are dropped
ValidateReplyRebuild ==
    /\ script = "process"
    /\ pc = "validate"
    /\ LET e == IF result = <<>>
                THEN Err("RuntimeError", <<Reason("Empty model response", <<>>, <<>>, <<>>)>>)
                ELSE ParseAndValidate(result, Templates, Schema)
       IN  /\ last_error' = e
           /\ errs' = Append(errs, e)
           /\ IF e = NoError
              THEN /\ parsed' = MatchGroup(result)[1].c
                   /\ pc' = "after_loop"
                   /\ UNCHANGED <<messages, attempt>>
              ELSE /\ messages' = InitialMessages \o Corrective(result, e)
                   /\ NextIteration(MaxAttempts)
                   /\ UNCHANGED parsed
    /\ UNCHANGED <<avars, fvars, tvars, output, script, configured, original_title, provider, result, invoked,
                   sent, exc, exc_reply, ret>>

\* the rest of the loop body: the empty check, the try block, and the
\* corrective messages
ValidateReply ==
    /\ script = "process"
    /\ pc = "validate"
    /\ LET e == IF result = <<>>
                THEN Err("RuntimeError", <<Reason("Empty model response", <<>>, <<>>, <<>>)>>)
                ELSE ParseAndValidate(result, Templates, Schema)
       IN  /\ last_error' = e
           /\ errs' = Append(errs, e)
           /\ IF e = NoError
              THEN /\ parsed' = MatchGroup(result)[1].c
                   /\ pc' = "after_loop"
                   /\ UNCHANGED <<messages, attempt>>
              ELSE /\ messages' = messages \o Corrective(result, e)
                   /\ NextIteration(MaxAttempts)
                   /\ UNCHANGED parsed
    /\ UNCHANGED <<avars, fvars, tvars, output, script, configured, original_title, provider, result, invoked,
                   sent, exc, exc_reply, ret>>

\* the failure after the loop reports a fixed text instead of last_error
AfterLoopNoDetail ==
    /\ script = "process"
    /\ pc = "after_loop"
    /\ IF last_error # NoError
       THEN /\ pc' = "failed"
            /\ exc' = Err("RuntimeError",
                          <<Reason("Failed to obtain structured response after retries", <<>>, <<>>, <<>>)>>)
       ELSE /\ pc' = "cascade"
            /\ exc' = exc
    /\ UNCHANGED <<avars, fvars, tvars, output, script, configured, original_title, provider, attempt, messages,
                   result, last_error, parsed, invoked, sent, errs, exc_reply, ret>>

\* the failure after the loop is swallowed: nothing is raised and nothing
\* follows
AfterLoopSwallow ==
    /\ script = "process"
    /\ pc = "after_loop"
    /\ last_error = NoError
    /\ pc' = "cascade"
    /\ UNCHANGED <<avars, fvars, tvars, output, script, configured, original_title, provider, attempt, messages,
                   result, last_error, parsed, invoked, sent, errs, exc, exc_reply, ret>>

\* if last_error: raise RuntimeError("Failed to obtain structured response
\* after retries: {last_error}")
AfterLoop ==
    /\ script = "process"
    /\ pc = "after_loop"
    /\ IF last_error # NoError
       THEN /\ pc' = "failed"
            /\ exc' = Err("RuntimeError",
                          <<Reason("Failed to obtain structured response after retries", <<>>, <<>>, <<>>)>>
                          \o last_error.reasons)
       ELSE /\ pc' = "cascade"
            /\ exc' = exc
    /\ UNCHANGED <<avars, fvars, tvars, output, script, configured, original_title, provider, attempt, messages,
                   result, last_error, parsed, invoked, sent, errs, exc_reply, ret>>

\* the "Try OpenAI first / DeepSeek next / Anthropic" block
LegacyCascade ==
    /\ script = "process"
    /\ pc = "cascade"
    /\ invoked' = invoked \o LegacyCalls(_require_providers(configured), result)
    /\ pc' = "post"
    /\ UNCHANGED <<avars, fvars, tvars, output, script, configured, original_title, provider, attempt, messages,
                   result, last_error, parsed, sent, errs, exc, exc_reply, ret>>

\* "Parse validated data" up to the return, and the re-raise of the outer
\* except
PostProcessStep ==
    /\ script = "process"
    /\ pc = "post"
    /\ LET r == PostProcess(parsed, original_title, Templates)
       IN  IF r.raised
           THEN pc' = "failed" /\ exc' = r.exc /\ ret' = ret
           ELSE pc' = "returned" /\ ret' = r.ret /\ exc' = exc
    /\ UNCHANGED <<avars, fvars, tvars, output, script, configured, original_title, provider, attempt, messages,
                   result, last_error, parsed, invoked, sent, errs, exc_reply>>

\* main after classify_issue_with_ai returned: the body is rendered from the
\* selected template and the step outputs are written, unless GITHUB_OUTPUT
\* is not set
WriteOutput ==
    /\ script = "process"
    /\ pc = "returned"
    /\ \E has_output \in BOOLEAN, imgs \in ImageLists :
       \E formatted_content \in { generate_formatted_content(TemplateOf(Templates, ret.template_key),
                                                             ret.fields, imgs) } :
         /\ template' = TemplateOf(Templates, ret.template_key)
         /\ values' = ret.fields
         /\ images' = imgs
         /\ out' = RenderOut(TemplateOf(Templates, ret.template_key), ret.fields, imgs)
         /\ rendered' = formatted_content
         /\ IF has_output
            THEN /\ output' = StepOutput(ret.type, ret.priority, ret.labels, ret.title, formatted_content)
                 /\ outfile' = OutputText(StepOutput(ret.type, ret.priority, ret.labels, ret.title,
                                                     formatted_content))
                 /\ pc' = "written"
                 /\ exc' = exc
            ELSE /\ pc' = "exit"
                 /\ exc' = Err("SystemExit", <<Reason("GITHUB_OUTPUT not provided by the environment", <<>>, <<>>, <<>>)>>)
                 /\ output' = output
                 /\ outfile' = outfile
    /\ UNCHANGED <<avars, parsed_data, descriptors, script, configured, original_title, provider, attempt, messages,
                   result, last_error, parsed, invoked, sent, errs, exc_reply, ret>>

(* ------------------------------------------------- ai_issue_analyze: main *)
\* the conversation main builds before its loop
AnalyzeStart ==
    /\ script = "analyze"
    /\ pc = "start"
    /\ messages' = InitialMessages
    /\ attempt' = 1
    /\ pc' = "call"
    /\ UNCHANGED <<avars, fvars, tvars, output, script, configured, original_title, provider, result, last_error,
                   parsed, invoked, sent, errs, exc, exc_reply, ret>>

\* assistant_text = deepseek_chat(messages): fail() exits the process when
\* the environment is incomplete or the call does not answer 2xx
AnalyzeCall ==
    /\ script = "analyze"
    /\ pc = "call"
    /\ IF "deepseek" \notin configured
       THEN /\ pc' = "exit"
            /\ exc' = Err("SystemExit", <<Reason("DeepSeek env missing", <<>>, <<>>, <<>>)>>)
            /\ UNCHANGED <<result, invoked, sent, errs>>
       ELSE \E r \in AnalyzeReplies :
            /\ invoked' = Append(invoked, "deepseek")
            /\ sent' = Append(sent, messages)
            /\ IF r.err
               THEN /\ pc' = "exit"
                    /\ exc' = Err("SystemExit", <<Reason("DeepSeek API call failed", <<>>, <<>>, <<>>)>>)
                    /\ errs' = Append(errs, Err("ProviderError", <<Reason("provider call failed", <<>>, <<>>, <<>>)>>))
                    /\ UNCHANGED result
               ELSE /\ result' = r.segs
                    /\ pc' = "validate"
                    /\ UNCHANGED <<exc, errs>>
    /\ UNCHANGED <<avars, fvars, tvars, output, script, configured, original_title, provider, attempt, messages,
                   last_error, parsed, exc_reply, ret>>

\* the corrective messages are appended only when another attempt follows
AnalyzeValidateGuarded ==
    /\ script = "analyze"
    /\ pc = "validate"
    /\ LET o == strict_load_json(result)
           e == IF ~o.ok
                THEN Err("NotJSON", <<Reason("Your previous reply was not valid JSON", <<>>, <<>>, <<>>)>>)
                ELSE validate_result(o.obj, TemplateFiles, RepoLabels)
       IN  /\ errs' = Append(errs, e)
           /\ IF e = NoError
              THEN /\ parsed' = o.obj
                   /\ output' = SavedResult(o.obj)
                   /\ pc' = "saved"
                   /\ UNCHANGED <<messages, attempt>>
              ELSE /\ messages' = IF attempt < RETRY_MAX
                                  THEN messages \o Corrective(result, e) ELSE messages
                   /\ NextIteration(RETRY_MAX)
                   /\ UNCHANGED <<parsed, output>>
    /\ UNCHANGED <<avars, fvars, tvars, script, configured, original_title, provider, result, last_error,
                   invoked, sent, exc, exc_reply, ret>>

\* strict_load_json, validate_result, and either the corrective messages or
\* the saved result
AnalyzeValidate ==
    /\ script = "analyze"
    /\ pc = "validate"
    /\ LET o == strict_load_json(result)
           e == IF ~o.ok
                THEN Err("NotJSON", <<Reason("Your previous reply was not valid JSON", <<>>, <<>>, <<>>)>>)
                ELSE validate_result(o.obj, TemplateFiles, RepoLabels)
       IN  /\ errs' = Append(errs, e)
           /\ IF e = NoError
              THEN /\ parsed' = o.obj
                   /\ output' = SavedResult(o.obj)
                   /\ pc' = "saved"
                   /\ UNCHANGED <<messages, attempt>>
              ELSE /\ messages' = messages \o Corrective(result, e)
                   /\ NextIteration(RETRY_MAX)
                   /\ UNCHANGED <<parsed, output>>
    /\ UNCHANGED <<avars, fvars, tvars, script, configured, original_title, provider, result, last_error,
                   invoked, sent, exc, exc_reply, ret>>

\* the last reply is saved as the result although it was rejected
AnalyzeAfterLoopSaves ==
    /\ script = "analyze"
    /\ pc = "after_loop"
    /\ pc' = "exit"
    /\ exc' = Err("SystemExit", <<Reason("DeepSeek analysis failed after retries", <<>>, <<>>, <<>>)>>)
    /\ exc_reply' = result
    /\ output' = SavedResult(IF HasMatch(result) /\ JsonLoadsOk(MatchGroup(result))
                              THEN MatchGroup(result)[1].c ELSE NoObject)
    /\ UNCHANGED <<avars, fvars, tvars, script, configured, original_title, provider, attempt, messages,
                   result, last_error, parsed, invoked, sent, errs, ret>>

\* fail("DeepSeek analysis failed after retries.", last_assistant)
AnalyzeAfterLoop ==
    /\ script = "analyze"
    /\ pc = "after_loop"
    /\ pc' = "exit"
    /\ exc' = Err("SystemExit", <<Reason("DeepSeek analysis failed after retries", <<>>, <<>>, <<>>)>>)
    /\ exc_reply' = result
    /\ UNCHANGED <<avars, fvars, tvars, output, script, configured, original_title, provider, attempt, messages,
                   result, last_error, parsed, invoked, sent, errs, ret>>

Next ==
    \/ SelectProvider
    \/ CallModel
    \/ ValidateReply
    \/ AfterLoop
    \/ LegacyCascade
    \/ PostProcessStep
    \/ WriteOutput
    \/ AnalyzeStart
    \/ AnalyzeCall
    \/ AnalyzeValidate
    \/ AnalyzeAfterLoop

Spec == Init /\ [][Next]_vars

\* the scripts run to completion: no step is postponed forever
FairSpec ==
    /\ Spec
    /\ WF_vars(SelectProvider) /\ WF_vars(CallModel) /\ WF_vars(ValidateReply)
    /\ WF_vars(AfterLoop) /\ WF_vars(LegacyCascade) /\ WF_vars(PostProcessStep)
    /\ WF_vars(WriteOutput)
    /\ WF_vars(AnalyzeStart) /\ WF_vars(AnalyzeCall) /\ WF_vars(AnalyzeValidate)
    /\ WF_vars(AnalyzeAfterLoop)

(* ---------------------- the validation of one reply, on a larger input set *)
\* the state of classify_issue_with_ai when the first reply has arrived
InitValidate ==
    /\ script = "process"
    /\ configured = {"deepseek"}
    /\ original_title \in Titles
    /\ pc = "validate"
    /\ provider = "deepseek"
    /\ attempt = 1
    /\ messages = InitialMessages
    /\ result \in { <<ObjSeg(c)>> : c \in ObjectSpace }
    /\ last_error = NoError
    /\ parsed = NoObject
    /\ invoked = <<"deepseek">>
    /\ sent = <<InitialMessages>>
    /\ errs = <<>>
    /\ exc = NoError
    /\ exc_reply = <<>>
    /\ ret = NoReturn
    /\ output = NoOutput
    /\ template = NoTemplate
    /\ values = <<>>
    /\ images = <<>>
    /\ descriptors = <<>>
    /\ out = <<>>
    /\ rendered = <<>>
    /\ outfile = <<>>
    /\ parsed_data = <<>>
    /\ result_json = NoObject
    /\ event_labels = {}
    /\ issue = Issue(<<>>, <<>>, {})
    /\ repo_names = {}
    /\ requests = <<>>

NextValidate ==
    \/ ValidateReply
    \/ AfterLoop
    \/ LegacyCascade
    \/ PostProcessStep
    \/ WriteOutput

SpecValidate == InitValidate /\ [][NextValidate]_vars

(* -------------- the normalizer and the renderer on a set of documents *)
\* the longest template body
MaxItems == 2

\* the form items a template document is made of
ItemSpace ==
    { FormItem("markdown", <<>>, <<>>, <<"H","i">>, FALSE, <<>>),
      FormItem("markdown", <<>>, <<>>, <<"#","#"," ","H">>, FALSE, <<>>),
      FormItem("input", <<"m","d","_","0">>, <<"X">>, <<>>, FALSE, <<>>),
      FormItem("input", <<"s","t","e","p","s">>, <<"S","t","e","p","s">>, <<>>, TRUE, <<>>),
      FormItem("textarea", <<>>, <<"A"," ","b">>, <<>>, FALSE, <<>>),
      FormItem("input", <<>>, <<"A","-","b">>, <<>>, TRUE, <<>>),
      FormItem("input", <<>>, <<"?">>, <<>>, TRUE, <<>>),
      FormItem("dropdown", <<"s","e","v">>, <<"S","e","v">>, <<>>, FALSE,
               <<OptDict(<<"A">>), OptNoLabel, OptPlain(<<"C">>), OptDict(<<>>)>>),
      FormItem("checkboxes", <<>>, <<"O","S">>, <<>>, FALSE,
               <<OptDict(<<"A">>), OptDict(<<"B">>), OptDict(<<"C">>)>>),
      FormItem("checkboxes", <<>>, <<"?">>, <<>>, TRUE,
               <<OptDict(<<"A">>), OptPlain(<<"C">>)>>) }

\* the sequences of length n over a set
RECURSIVE SeqsOfLen(_, _)
SeqsOfLen(S, n) ==
    IF n = 0 THEN { <<>> }
    ELSE { Append(q, x) : q \in SeqsOfLen(S, n - 1), x \in S }

\* the template documents
TemplateSpace ==
    { [name |-> <<"T">>, body |-> b] : b \in UNION { SeqsOfLen(ItemSpace, n) : n \in 0..MaxItems } }

\* the values a field may be given for rendering
RenderValues ==
    { StrV(<<"A">>), StrV(<<"A",","," ","C">>), StrV(<<>>), StrV(<<" ">>),
      StrV(<<"#","#"," ","X">>), StrV(<<"E","O","F">>), ListV(<< <<"A">>, <<"C">> >>), Null, NumV(<<"7">>) }

\* the field-value maps rendered for a template: no value at all, or one
\* value under every key the normalizer declares for a field
ValueMaps(t) ==
    LET fs == SelectSeq(_normalize_fields(t), LAMBDA f : f.type # "markdown")
    IN  { <<>> } \cup { [ i \in DOMAIN fs |-> Item(fs[i].key, v) ] : v \in RenderValues }

\* the key under which the one template of a run is loaded
KeyT == <<"T">>

\* the reply object that carries a field-value map for the template
ReplyWith(fields) ==
    Candidate(StrV(<<"b","u","g">>), StrV(<<"p","1">>), NumV(<<"1">>), StrV(<<"T">>), StrV(KeyT),
              FieldsVal("dict", fields))

InitTemplate ==
    /\ script = "process"
    /\ configured = {}
    /\ original_title = <<>>
    /\ pc = "template"
    /\ provider = "none"
    /\ attempt = 0
    /\ messages = <<>>
    /\ result = <<>>
    /\ last_error = NoError
    /\ parsed = NoObject
    /\ invoked = <<>>
    /\ sent = <<>>
    /\ errs = <<>>
    /\ exc = NoError
    /\ exc_reply = <<>>
    /\ ret = NoReturn
    /\ output = NoOutput
    /\ template \in TemplateSpace
    /\ values \in ValueMaps(template)
    /\ images \in ImageLists
    /\ descriptors = <<>>
    /\ out = <<>>
    /\ rendered = <<>>
    /\ outfile = <<>>
    /\ parsed_data = <<>>
    /\ result_json = NoObject
    /\ event_labels = {}
    /\ issue = Issue(<<>>, <<>>, {})
    /\ repo_names = {}
    /\ requests = <<>>

\* the list of descriptors is kept between calls and extended by each call
NormalizeStepShared ==
    /\ pc \in {"template", "normalized"}
    /\ descriptors' = NormalizeAcc(template.body, descriptors)
    /\ pc' = IF pc = "template" THEN "normalized" ELSE "normalized_again"
    /\ UNCHANGED <<avars, fvars, template, values, images, out, rendered, script, configured, original_title,
                   provider, attempt, messages, result, last_error, parsed, invoked, sent,
                   errs, exc, exc_reply, ret, output>>

\* one call of _normalize_fields(template); it is called twice
NormalizeStep ==
    /\ pc \in {"template", "normalized"}
    /\ descriptors' = _normalize_fields(template)
    /\ pc' = IF pc = "template" THEN "normalized" ELSE "normalized_again"
    /\ UNCHANGED <<avars, fvars, template, values, images, out, rendered, script, configured, original_title,
                   provider, attempt, messages, result, last_error, parsed, invoked, sent,
                   errs, exc, exc_reply, ret, output>>

\* the checks of the retry loop on a reply object that carries the values,
\* against the schema built from the template
ValidateStep ==
    /\ pc = "normalized_again"
    /\ LET templates == << [key |-> KeyT, tpl |-> template] >>
           e == ValidateData(ReplyWith(values), templates, BuildSchema(templates))
       IN  /\ last_error' = e
           /\ parsed' = IF e = NoError THEN ReplyWith(values) ELSE parsed
           /\ pc' = IF e = NoError THEN "validated" ELSE "rejected"
    /\ UNCHANGED <<avars, fvars, tvars, script, configured, original_title, provider, attempt, messages,
                   result, invoked, sent, errs, exc, exc_reply, ret, output>>

\* one call of generate_formatted_content(template, values, images) with the
\* fields of the accepted object
RenderStep ==
    /\ pc = "validated"
    /\ out' = RenderOut(template, parsed.fields.items, images)
    /\ rendered' = generate_formatted_content(template, parsed.fields.items, images)
    /\ pc' = "rendered"
    /\ UNCHANGED <<avars, fvars, template, values, images, descriptors, script, configured, original_title,
                   provider, attempt, messages, result, last_error, parsed, invoked, sent,
                   errs, exc, exc_reply, ret, output>>

(* ------------------------------------ update_issue: parse_github_output *)
\* data[key] = value
DictPut(d, k, v) ==
    IF HasKey(d, k)
    THEN [ i \in DOMAIN d |-> IF d[i].k = k THEN Item(k, v) ELSE d[i] ]
    ELSE Append(d, Item(k, v))

\* line.split('=', 1) of a line that contains '='
SplitOnce(line) ==
    LET at == CHOOSE i \in DOMAIN line : line[i] = "=" /\ \A j \in 1..(i - 1) : line[j] # "="
    IN  Item(IF at = 1 THEN <<>> ELSE SubSeq(line, 1, at - 1),
             IF at = Len(line) THEN <<>> ELSE SubSeq(line, at + 1, Len(line)))

\* the while loop of parse_github_output from index i with the dict d; the
\* inner loop started at index i + 1 stops at e, the first line from there on
\* whose strip() is 'EOF', or one past the last line
RECURSIVE ParseFrom(_, _, _)
ParseFrom(lines, i, d) ==
    IF i > Len(lines) THEN d
    ELSE LET line == Strip(lines[i])
             IsEnd(j) == Strip(lines[j]) = <<"E","O","F">>
             e == IF \E j \in (i + 1)..Len(lines) : IsEnd(j)
                  THEN CHOOSE j \in (i + 1)..Len(lines) :
                          IsEnd(j) /\ \A h \in (i + 1)..(j - 1) : ~IsEnd(h)
                  ELSE Len(lines) + 1
             content_lines == IF e = i + 1 THEN <<>> ELSE SubSeq(lines, i + 1, e - 1)
         IN  IF "=" \in Range(line) /\ ~StartsWith(line, OutputKey.formatted_content)
             THEN ParseFrom(lines, i + 1, DictPut(d, SplitOnce(line).k, SplitOnce(line).v))
             ELSE IF StartsWith(line, OutputKey.formatted_content \o <<"<","<","E","O","F">>)
             THEN ParseFrom(lines, e + 1,
                            DictPut(d, OutputKey.formatted_content, Join(<<"\n">>, content_lines)))
             ELSE ParseFrom(lines, i + 1, d)

\* GitHubIssueUpdater.parse_github_output(output_content); the lines are
\* output_content.split('\n'), computed from the positions of the line
\* breaks: the k-th line lies between the (k-1)-th and the k-th of them
parse_github_output(output_content) ==
    LET breaks == { i \in DOMAIN output_content : output_content[i] = "\n" }
        BreakAt(k) == IF k = 0 THEN 0
                      ELSE IF k > Cardinality(breaks) THEN Len(output_content) + 1
                      ELSE CHOOSE i \in breaks : Cardinality({ j \in breaks : j < i }) = k - 1
        SplitLines == [ k \in 1..(Cardinality(breaks) + 1) |->
                          IF BreakAt(k - 1) + 1 = BreakAt(k) THEN <<>>
                          ELSE SubSeq(output_content, BreakAt(k - 1) + 1, BreakAt(k) - 1) ]
    IN  CHOOSE d \in { ParseFrom(lines, 1, <<>>) : lines \in { SplitLines } } : TRUE

\* main of process_ai_issue after the body is rendered: the values
\* classify_issue_with_ai returns for the accepted reply, and the file
WriteStep ==
    /\ pc = "rendered"
    /\ \E r \in { PostProcess(parsed, original_title, << [key |-> KeyT, tpl |-> template] >>) } :
         /\ ~r.raised
         /\ ret' = r.ret
         /\ \E o \in { StepOutput(r.ret.type, r.ret.priority, r.ret.labels, r.ret.title, rendered) } :
              /\ output' = o
              /\ outfile' = OutputText(o)
    /\ pc' = "output_written"
    /\ UNCHANGED <<avars, parsed_data, tvars, script, configured, original_title, provider, attempt,
                   messages, result, last_error, parsed, invoked, sent, errs, exc, exc_reply>>

\* update_issue reads the file and parses it
ParseStep ==
    /\ pc = "output_written"
    /\ parsed_data' = parse_github_output(outfile)
    /\ pc' = "output_parsed"
    /\ UNCHANGED <<avars, outfile, tvars, script, configured, original_title, provider, attempt,
                   messages, result, last_error, parsed, invoked, sent, errs, exc, exc_reply,
                   ret, output>>

NextTemplate ==
    \/ NormalizeStep
    \/ ValidateStep
    \/ RenderStep
    \/ WriteStep
    \/ ParseStep

SpecTemplate == InitTemplate /\ [][NextTemplate]_vars

(* --------------------------------------------------- issue_apply_update *)
AiTriage    == <<"a","i",":","t","r","i","a","g","e">>
AiProcessed == <<"a","i",":","p","r","o","c","e","s","s","e","d">>

\* the result objects the file at JSON_PATH may hold (an element of a list
\* of labels is a string in every one of them)
ApplyObjects ==
    LET TypeBug == <<"t","y","p","e",":","b","u","g">>
        AreaUi  == <<"a","r","e","a",":","u","i">>
        Unknown == <<"n","e","w">>
    IN
    { AnalyzeObject(Absent, StrV(<<"T">>), ListV(<<TypeBug>>), StrV(<<"B">>)),
      AnalyzeObject(Absent, StrV(<<"T">>), ListV(<<TypeBug, AreaUi>>), StrV(<<"B">>)),
      AnalyzeObject(Absent, StrV(<<"T">>), ListV(<<TypeBug, AiTriage>>), StrV(<<"B">>)),
      AnalyzeObject(Absent, StrV(<<"T">>), ListV(<<>>), StrV(<<"B">>)),
      AnalyzeObject(Absent, StrV(<<"T">>), ListV(<<TypeBug, Unknown>>), StrV(<<"B">>)),
      AnalyzeObject(Absent, Absent, ListV(<<TypeBug>>), StrV(<<"B">>)),
      AnalyzeObject(Absent, StrV(<<"T">>), ListV(<<TypeBug>>), Absent),
      AnalyzeObject(Absent, StrV(<<"T">>), Absent, StrV(<<"B">>)),
      AnalyzeObject(Absent, StrV(<<" ">>), ListV(<<TypeBug>>), StrV(<<"B">>)),
      AnalyzeObject(Absent, NumV(<<"7">>), ListV(<<TypeBug>>), StrV(<<"B">>)),
      AnalyzeObject(Absent, StrV(<<"T">>), ListV(<<TypeBug>>), StrV(<<" ">>)),
      AnalyzeObject(Absent, StrV(<<"T">>), ListV(<<TypeBug>>), Null),
      AnalyzeObject(Absent, StrV(<<"T">>), StrV(TypeBug), StrV(<<"B">>)) }

\* fail(msg): the message is printed and the run exits with status 1
Fail(msg) == Err("SystemExit", <<Reason(msg, <<>>, <<>>, <<>>)>>)

\* the variables of the two other scripts, which a run of this one leaves alone
ivars == <<script, configured, original_title, provider, attempt, messages, result,
           last_error, parsed, invoked, sent, errs, exc_reply, ret, output>>

\* the first failed check of "Strict keys" and of the type checks, or NoError
CheckResultJson(o) ==
    IF o.title.t = "absent" THEN Fail("Missing key in result JSON: title")
    ELSE IF o.markdown_body.t = "absent" THEN Fail("Missing key in result JSON: markdown_body")
    ELSE IF o.labels.t = "absent" THEN Fail("Missing key in result JSON: labels")
    ELSE IF o.title.t # "str" \/ Strip(o.title.s) = <<>> THEN Fail("Invalid title in result JSON.")
    ELSE IF o.markdown_body.t # "str" \/ Strip(o.markdown_body.s) = <<>>
    THEN Fail("Invalid markdown_body in result JSON.")
    ELSE IF o.labels.t # "list" THEN Fail("Invalid labels in result JSON.")
    ELSE NoError

InitApply ==
    /\ script = "apply"
    /\ configured = {}
    /\ original_title = <<>>
    /\ pc = "apply"
    /\ provider = "none"
    /\ attempt = 0
    /\ messages = <<>>
    /\ result = <<>>
    /\ last_error = NoError
    /\ parsed = NoObject
    /\ invoked = <<>>
    /\ sent = <<>>
    /\ errs = <<>>
    /\ exc = NoError
    /\ exc_reply = <<>>
    /\ ret = NoReturn
    /\ output = NoOutput
    /\ template = NoTemplate
    /\ values = <<>>
    /\ images = <<>>
    /\ descriptors = <<>>
    /\ out = <<>>
    /\ rendered = <<>>
    /\ outfile = <<>>
    /\ parsed_data = <<>>
    /\ result_json \in ApplyObjects
    /\ event_labels \in SUBSET {AiTriage, <<"a","r","e","a",":","u","i">>}
    /\ issue = Issue(<<"O">>, <<"o">>, event_labels)
    /\ repo_names \in { RepoLabels \cup {AiProcessed}, RepoLabels }
    /\ requests = <<>>

\* a request the API answers with a status outside 200..299 ends the run
ApiFails ==
    /\ pc' = "exit"
    /\ exc' = Fail("GitHub API error")
    /\ UNCHANGED <<issue, requests>>

\* json.load and the checks of the keys and of their types
ApplyLoad ==
    /\ pc = "apply"
    /\ IF CheckResultJson(result_json) = NoError
       THEN pc' = "apply_labels" /\ exc' = exc
       ELSE pc' = "exit" /\ exc' = CheckResultJson(result_json)
    /\ UNCHANGED <<avars, fvars, tvars, ivars>>

\* list_repo_labels and the check for unknown labels
ApplyListLabels ==
    /\ pc = "apply_labels"
    /\ \E ok \in BOOLEAN :
         IF ~ok THEN ApiFails
         ELSE /\ IF Range(result_json.labels.l) \subseteq repo_names
                 THEN pc' = "apply_patch" /\ exc' = exc
                 ELSE pc' = "exit" /\ exc' = Fail("Result labels contain unknown values.")
              /\ UNCHANGED <<issue, requests>>
    /\ UNCHANGED <<result_json, event_labels, repo_names, fvars, tvars, ivars>>

\* "Update title & body"
ApplyPatch ==
    /\ pc = "apply_patch"
    /\ \E ok \in BOOLEAN :
         IF ~ok THEN ApiFails
         ELSE /\ issue' = Issue(result_json.title.s, result_json.markdown_body.s, issue.labels)
              /\ requests' = Append(requests, [method |-> "PATCH", path |-> "issue"])
              /\ pc' = "apply_add"
              /\ exc' = exc
    /\ UNCHANGED <<result_json, event_labels, repo_names, fvars, tvars, ivars>>

\* "Add labels"
ApplyAddLabels ==
    /\ pc = "apply_add"
    /\ IF result_json.labels.l = <<>>
       THEN pc' = "apply_remove" /\ UNCHANGED <<issue, requests, exc>>
       ELSE \E ok \in BOOLEAN :
              IF ~ok THEN ApiFails
              ELSE /\ issue' = Issue(issue.title, issue.body, issue.labels \cup Range(result_json.labels.l))
                   /\ requests' = Append(requests, [method |-> "POST", path |-> "labels"])
                   /\ pc' = "apply_remove"
                   /\ exc' = exc
    /\ UNCHANGED <<result_json, event_labels, repo_names, fvars, tvars, ivars>>

\* the removal of 'ai:triage', sent when the event payload lists the label
ApplyRemoveTriage ==
    /\ pc = "apply_remove"
    /\ IF AiTriage \notin event_labels
       THEN pc' = "apply_flag" /\ UNCHANGED <<issue, requests, exc>>
       ELSE \E ok \in BOOLEAN :
              IF ~ok THEN ApiFails
              ELSE /\ issue' = Issue(issue.title, issue.body, issue.labels \ {AiTriage})
                   /\ requests' = Append(requests, [method |-> "DELETE", path |-> "labels/ai:triage"])
                   /\ pc' = "apply_flag"
                   /\ exc' = exc
    /\ UNCHANGED <<result_json, event_labels, repo_names, fvars, tvars, ivars>>

\* the check that 'ai:processed' exists, the request that adds it, and the
\* step summary
ApplyProcessed ==
    /\ pc = "apply_flag"
    /\ IF AiProcessed \notin repo_names
       THEN /\ pc' = "exit"
            /\ exc' = Fail("Label 'ai:processed' does not exist in repo.")
            /\ UNCHANGED <<issue, requests>>
       ELSE \E ok \in BOOLEAN :
              IF ~ok THEN ApiFails
              ELSE /\ issue' = Issue(issue.title, issue.body, issue.labels \cup {AiProcessed})
                   /\ requests' = Append(requests, [method |-> "POST", path |-> "labels"])
                   /\ pc' = "applied"
                   /\ exc' = exc
    /\ UNCHANGED <<result_json, event_labels, repo_names, fvars, tvars, ivars>>

NextApply ==
    \/ ApplyLoad
    \/ ApplyListLabels
    \/ ApplyPatch
    \/ ApplyAddLabels
    \/ ApplyRemoveTriage
    \/ ApplyProcessed

SpecApply == InitApply /\ [][NextApply]_vars

(* ============================================================== claims *)
\* the run is over
Terminal == pc \in {"written", "saved", "failed", "exit"}

\* the outcome of an attempt whose reply was invalid (empty, without a JSON
\* object, unparseable, or rejected by a check)
InvalidReplyErr(e) == e.kind \in {"ValueError", "JSONDecodeError", "RuntimeError", "NotJSON"}

\* three attempts were made and each got an invalid reply
ThreeInvalid == Len(errs) = 3 /\ \A i \in 1..3 : InvalidReplyErr(errs[i])

\* the terminal failure of the repair loop, reporting the third attempt
Exhausted ==
    IF script = "process"
    THEN /\ pc = "failed"
         /\ exc.kind = "RuntimeError"
         /\ exc.reasons = <<Reason("Failed to obtain structured response after retries", <<>>, <<>>, <<>>)>>
                          \o errs[3].reasons
    ELSE /\ pc = "exit"
         /\ exc.kind = "SystemExit"
         /\ exc.reasons[1].r = "DeepSeek analysis failed after retries"
         /\ exc_reply = result

\* C1: in any run the model is invoked at most 3 times, whatever mix of
\* provider errors, unparseable replies and validation failures occurs.
C1_AtMostThreeInvocations == Len(invoked) <= 3

\* C1 witness: a run of process_ai_issue that failed after three invocations,
\* one of which raised and one of which was rejected by the validation
C1_Witness ==
    /\ script = "process" /\ pc = "failed" /\ Len(invoked) = 3 /\ Len(errs) = 3
    /\ \E i \in 1..3 : errs[i].kind = "ProviderError"
    /\ \E i \in 1..3 : errs[i].kind = "ValueError"

C3_Terminates == <>Terminal

\* C3 witness: a run that used all three attempts and then ended
C3_Witness == Terminal /\ Len(errs) = 3 /\ Len(invoked) = 3 /\ Len(messages) = 8

(* ------------------------------------------ the validation of one reply *)
\* the last reply contains exactly one JSON object
HasObject == result # <<>> /\ HasMatch(result) /\ JsonLoadsOk(MatchGroup(result))
\* that object
ReplyObject == MatchGroup(result)[1].c
\* the outcome of the last attempt
LastErr == errs[Len(errs)]
\* process_ai_issue has validated the object of the last reply
Judged ==
    /\ script = "process" /\ errs # <<>> /\ Len(errs) = Len(invoked)
    /\ LastErr.kind # "ProviderError" /\ HasObject

\* what the checks 3, 1-2 and 4 of the specification ask of an object
FieldsIsMapping(c) == c.fields.t = "dict"
HasTypeAndPriority(c) == c.type.t # "absent" /\ c.priority.t # "absent"
TemplateKeyKnown(c) == c.template_key.t = "str" /\ c.template_key.s \in {KeyT1, KeyT2}
BasicChecksPass(c) == FieldsIsMapping(c) /\ HasTypeAndPriority(c) /\ TemplateKeyKnown(c)

\* the keys of the required non-markdown fields of the declared templates
DeclaredRequired(tk) == IF tk = KeyT1 THEN {KeySteps} ELSE {}
\* the options the dropdown sev declares in each template
DeclaredSevOptions(tk) == IF tk = KeyT1 THEN << <<"A">>, <<"B">> >> ELSE <<>>

\* an error lists key k among the missing required fields
ReportsMissing(e, k) ==
    \E i \in DOMAIN e.reasons :
        e.reasons[i].r = "missing required fields" /\ InList(k, e.reasons[i].keys)
\* an error rejects the option value given for key k
ReportsBadOption(e, k) ==
    \E i \in DOMAIN e.reasons :
        /\ e.reasons[i].r = "invalid option values"
        /\ \E j \in DOMAIN e.reasons[i].bad : e.reasons[i].bad[j].k = k
\* the error is exactly one template_key violation listing the valid keys
OnlyTemplateKeyViolation(e, c) ==
    /\ e.kind = "ValueError" /\ Len(e.reasons) = 1
    /\ e.reasons[1].keys = <<KeyT1, KeyT2>>
    /\ IF Truthy(c.template_key)
       THEN e.reasons[1].r = "Invalid template_key" /\ e.reasons[1].offending = PyStr(c.template_key)
       ELSE e.reasons[1].r = "Missing template_key"

\* a value that is not a non-empty string
NotNonEmptyString(v) == v.t # "str" \/ Strip(v.s) = <<>>
\* a value that is empty: none, a blank string or an empty list
EmptyValue(v) == v.t \in {"absent", "null"} \/ (v.t = "str" /\ Strip(v.s) = <<>>) \/ (v.t = "list" /\ v.l = <<>>)

\* C4 (as claimed): every returned response has a type of the closed set, a
\* priority of p0..p4, a mapping as fields, a template_key of the templates,
\* a non-empty value for every required field of that template, and dropdown
\* values that are among the declared options.
C4_ReturnedPassedEveryCheck ==
    pc = "returned" =>
        /\ ret.type \in TypeSet
        /\ ret.priority \in PrioritySet
        /\ parsed.fields.t = "dict"
        /\ ret.template_key \in {KeyT1, KeyT2}
        /\ \A k \in DeclaredRequired(ret.template_key) :
               HasKey(ret.fields, k) /\ ~EmptyValue(DictGet(ret.fields, k))
        /\ HasKey(ret.fields, KeySev) /\ DeclaredSevOptions(ret.template_key) # <<>> =>
               /\ DictGet(ret.fields, KeySev).t = "str"
               /\ InList(DictGet(ret.fields, KeySev).s, DeclaredSevOptions(ret.template_key))

\* C5 (as claimed): a reply without a title, or with an empty one, is never
\* returned with a substituted title; the returned title and template_key are
\* those of the reply.
C5_NoDefaultButPriority ==
    pc = "returned" =>
        /\ Truthy(parsed.title)
        /\ ret.title = Strip(PyStr(parsed.title))
        /\ ret.template_key = PyStr(parsed.template_key)

\* the number of the checks on presence and type that an object fails
FailedBasicChecks(c) ==
    (IF FieldsIsMapping(c) THEN 0 ELSE 1) + (IF HasTypeAndPriority(c) THEN 0 ELSE 1)
    + (IF TemplateKeyKnown(c) THEN 0 ELSE 1)

LacksRequiredKey(c, k) ==
    /\ FieldsIsMapping(c) /\ TemplateKeyKnown(c)
    /\ k \in DeclaredRequired(c.template_key.s) /\ ~HasKey(c.fields.items, k)

C8_RequiredNeedsNonEmptyString ==
    Judged /\ BasicChecksPass(ReplyObject) =>
        \A k \in DeclaredRequired(ReplyObject.template_key.s) :
            HasKey(ReplyObject.fields.items, k) /\ NotNonEmptyString(DictGet(ReplyObject.fields.items, k))
                => ReportsMissing(LastErr, k)

SuppliesSev(c) == BasicChecksPass(c) /\ HasKey(c.fields.items, KeySev)

DeclaredOsOptions(tk) == IF tk = KeyT1 THEN << <<"A">>, <<"C">> >> ELSE <<>>
\* the object passes the basic checks and supplies a value for the checkboxes
SuppliesOs(c) == BasicChecksPass(c) /\ HasKey(c.fields.items, KeyOs)
\* the entry of the error that rejects the value given for key k
BadEntry(e, k) ==
    LET r == e.reasons[CHOOSE i \in DOMAIN e.reasons : e.reasons[i].r = "invalid option values"]
    IN  r.bad[CHOOSE j \in DOMAIN r.bad : r.bad[j].k = k]

\* C11 (as claimed): a checkboxes value validates only if every token of its
\* token list is a member of the descriptor's options.
C11_CheckboxEveryTokenMember ==
    Judged /\ SuppliesOs(ReplyObject) =>
        LET toks == CheckboxTokens(DictGet(ReplyObject.fields.items, KeyOs))
            opts == DeclaredOsOptions(ReplyObject.template_key.s)
        IN  ~ReportsBadOption(LastErr, KeyOs) => \A i \in DOMAIN toks : InList(toks[i], opts)

\* C11 (amended): a checkboxes value is rejected if and only if the declared
\* option list is not empty and some token of its token list (a list as it
\* is; any other value as text split on commas, the pieces trimmed and the
\* empty ones dropped) is none of the options; the violation names the field
\* key, the tokens outside the options and the declared options.
C11_CheckboxTokensChecked ==
    Judged /\ SuppliesOs(ReplyObject) =>
        LET toks == CheckboxTokens(DictGet(ReplyObject.fields.items, KeyOs))
            opts == DeclaredOsOptions(ReplyObject.template_key.s)
            outside == { i \in DOMAIN toks : ~InList(toks[i], opts) }
        IN  /\ ReportsBadOption(LastErr, KeyOs) <=> (opts # <<>> /\ outside # {})
            /\ ReportsBadOption(LastErr, KeyOs) =>
                  /\ parsed = NoObject
                  /\ BadEntry(LastErr, KeyOs).opts = opts
                  /\ Range(BadEntry(LastErr, KeyOs).invalid) = { toks[i] : i \in outside }

\* C11 witness: the comma-joined value "A,B" was rejected for its token B
\* alone, with the options A and C named
C11_Witness ==
    /\ Judged /\ SuppliesOs(ReplyObject) /\ ReplyObject.template_key.s = KeyT1
    /\ DictGet(ReplyObject.fields.items, KeyOs) = StrV(<<"A",",","B">>)
    /\ ReportsBadOption(LastErr, KeyOs)
    /\ BadEntry(LastErr, KeyOs).invalid = << <<"B">> >>
    /\ BadEntry(LastErr, KeyOs).opts = << <<"A">>, <<"C">> >>

(* -------------------------------------------------------------- priority *)
\* the object has a priority key whose value is none of p0..p4
PriorityOutside(c) == c.priority.t # "absent" /\ Lower(PyStr(c.priority)) \notin PrioritySet

\* C12: a priority that is present but outside p0..p4 adds no violation (the
\* outcome of the attempt is that of the same object with priority p1, so a
\* missing required field is still reported) and is returned as p2; an
\* object without a priority key is rejected.
C12_PriorityCoerced ==
    Judged =>
        /\ PriorityOutside(ReplyObject) =>
              /\ LastErr = ValidateData([ReplyObject EXCEPT !.priority = StrV(<<"p","1">>)],
                                        Templates, Schema)
              /\ \A i \in DOMAIN LastErr.reasons :
                     LastErr.reasons[i].r = "Missing type or priority" => ReplyObject.type.t = "absent"
              /\ LacksRequiredKey(ReplyObject, KeySteps) /\ ReplyObject.type.t # "absent"
                     => ReportsMissing(LastErr, KeySteps)
              /\ pc = "returned" => ret.priority = <<"p","2">>
        /\ ReplyObject.priority.t = "absent" =>
              LastErr # NoError /\ parsed = NoObject /\ pc # "returned"

\* C12 witness: a reply with priority p9 was accepted and returned with
\* priority p2
C12_Witness ==
    /\ Judged /\ pc = "returned"
    /\ ReplyObject.priority = StrV(<<"p","9">>) /\ LastErr = NoError
    /\ ret.priority = <<"p","2">>

(* ------------------------------------------------------- the retry loop *)
\* C13 (as claimed): the only failures classify_issue_with_ai ends in are one
\* raised before any model call and the exhaustion failure after the third
\* attempt; a reply with a type outside the closed set or a non-numeric
\* confidence leads to another attempt.
C13_OnlyExhaustionSurfaces ==
    script = "process" /\ pc \in {"failed", "exit"} =>
        \/ invoked = <<>>
        \/ Len(invoked) = 3 /\ Len(errs) = 3 /\ Exhausted

\* the failure that ends a run whose attempts are used up
ExhaustionReasons ==
    { "Failed to obtain structured response after retries",
      "DeepSeek analysis failed after retries" }

\* C14 (as claimed): a provider failure uses up one attempt of three: after
\* one on attempt 1 or 2 the model is invoked again, after one on attempt 3
\* the run fails as exhausted, and no run makes a fourth invocation.
C14_ProviderFailureOneAttempt ==
    /\ Len(invoked) <= 3
    /\ \A i \in DOMAIN errs :
          errs[i].kind = "ProviderError" /\ Terminal =>
              IF i < 3 THEN Len(invoked) > i
              ELSE pc \in {"failed", "exit"} /\ exc.reasons[1].r \in ExhaustionReasons

(* ------------------------------------------------------ the conversation *)
\* a is a prefix of b
IsPrefix(a, b) == Len(a) <= Len(b) /\ SubSeq(b, 1, Len(a)) = a

\* C15: the conversation starts as the system message followed by the user
\* message, and the conversation passed to the model on any earlier attempt
\* is a prefix of the current conversation.
C15_AppendOnly ==
    /\ sent # <<>> =>
          /\ Len(sent[1]) = 2
          /\ sent[1][1].role = "system" /\ sent[1][2].role = "user"
    /\ \A i \in DOMAIN sent : IsPrefix(sent[i], messages)
    /\ \A i, j \in DOMAIN sent : i <= j => IsPrefix(sent[i], sent[j])

\* C15 witness: the third invocation of a run got a conversation that
\* extends the second by a correction different from the first one
C15_Witness ==
    /\ Len(sent) = 3 /\ Len(sent[2]) = 4 /\ Len(sent[3]) = 6
    /\ sent[3][6] # sent[3][4]
    /\ IsPrefix(sent[2], sent[3]) /\ IsPrefix(sent[3], messages)

\* the conversation of attempt k + 1 is that of attempt k followed by an
\* assistant message and a user message quoting the whole outcome of attempt k
EndsWithCorrection(k) ==
    /\ Len(sent[k + 1]) = Len(sent[k]) + 2
    /\ sent[k + 1][Len(sent[k]) + 1].role = "assistant"
    /\ sent[k + 1][Len(sent[k]) + 2].role = "user"
    /\ sent[k + 1][Len(sent[k]) + 2].err = errs[k]

\* C16: whenever the conversation grows, exactly two messages are appended:
\* an assistant message holding the reply of the attempt that just failed,
\* then a user message holding every reason of that attempt's error; so the
\* conversation of attempt k + 1 ends with the reply and the reasons of
\* attempt k, when attempt k got a reply.
C16_RetryAppendsReplyThenViolations ==
    /\ [][ messages # <<>> /\ messages' # messages =>
              /\ Len(errs') = Len(errs) + 1
              /\ InvalidReplyErr(errs'[Len(errs')])
              /\ messages' = messages \o << Msg("assistant", "reply", result, NoError),
                                             Msg("user", "correction", <<>>, errs'[Len(errs')]) >> ]_vars
    /\ [](\A k \in 1..(Len(sent) - 1) : errs[k].kind # "ProviderError" => EndsWithCorrection(k))

\* C16 witness: the second invocation got a conversation whose last message
\* quotes both the missing required field and the rejected option of the
\* first reply
C16_Witness ==
    /\ Len(sent) >= 2 /\ EndsWithCorrection(1)
    /\ Len(errs[1].reasons) = 2
    /\ ReportsMissing(sent[2][4].err, KeySteps) /\ ReportsBadOption(sent[2][4].err, KeySev)
    /\ sent[2][3].text # <<>>

\* the run ended after a third attempt that failed
ExhaustedRun == Terminal /\ Len(sent) = 3 /\ Len(errs) = 3 /\ errs[3] # NoError

\* C17 (as claimed): when the third attempt fails, the conversation is left
\* as it was when the third invocation was made.
C17_ExhaustedLeavesConversation == ExhaustedRun => messages = sent[3]

\* C17 (amended): messages are appended after every attempt whose reply was
\* invalid, the third included, and at no other step; when the third
\* attempt fails on its reply the conversation ends with that reply and its
\* correction, which no invocation receives, and when it fails on a provider
\* error the conversation is that of the third invocation.
C17_AppendedAfterEveryInvalidReply ==
    /\ [][ messages # <<>> =>
              (messages' # messages <=>
                 /\ Len(errs') = Len(errs) + 1 /\ InvalidReplyErr(errs'[Len(errs')])) ]_vars
    /\ [](ExhaustedRun =>
              /\ Len(invoked) = 3
              /\ IF InvalidReplyErr(errs[3])
                 THEN messages = sent[3] \o << Msg("assistant", "reply", result, NoError),
                                                Msg("user", "correction", <<>>, errs[3]) >>
                 ELSE messages = sent[3])

\* C17 witness: a run of ai_issue_analyze ended after three invalid replies
\* with two messages more than the third invocation received
C17_Witness ==
    /\ script = "analyze" /\ ExhaustedRun /\ InvalidReplyErr(errs[3])
    /\ Len(sent[3]) = 6 /\ Len(messages) = 8
    /\ messages[8].err = errs[3]

\* C18 (as claimed): the failure that ends a run of three failed attempts is
\* explicit and carries both the reasons of the third attempt and the text
\* of the last reply.
C18_ExhaustionCarriesBoth ==
    ExhaustedRun =>
        /\ pc \in {"failed", "exit"} /\ exc # NoError
        /\ SubSeq(exc.reasons, 2, Len(exc.reasons)) = errs[3].reasons
        /\ exc_reply = result

(* ---------------------------------------------------- parsing the reply *)
\* the last attempt got a reply, which result holds, and has been judged
Answered == errs # <<>> /\ Len(errs) = Len(invoked) /\ LastErr.kind # "ProviderError"

\* the reply has no brace-delimited part, or the text extracted from it (from
\* the first opening to the last closing brace in process_ai_issue, the whole
\* reply in ai_issue_analyze) does not parse
ParseFails ==
    IF script = "process"
    THEN ~HasMatch(result) \/ ~JsonLoadsOk(MatchGroup(result))
    ELSE ~JsonLoadsOk(result)

\* the reasons that report a reply without a parsed object
ParseReasons ==
    { "Empty model response", "No JSON object found in AI response", "json.loads failed",
      "Your previous reply was not valid JSON" }

\* C19: a reply without a brace-delimited part, or whose extracted text does
\* not parse, fails the attempt with exactly one reason, the no-object or
\* parse message, and none of the checks of the validation has reported.
C19_ParseFailureSingleItem ==
    Answered /\ ParseFails =>
        /\ Len(LastErr.reasons) = 1
        /\ LastErr.reasons[1].r \in ParseReasons
        /\ LastErr.kind \in {"RuntimeError", "ValueError", "JSONDecodeError", "NotJSON"}
        /\ result # <<>> /\ ~HasMatch(result) /\ script = "process"
              => LastErr.reasons[1].r = "No JSON object found in AI response"
        /\ HasMatch(result) /\ script = "process" => LastErr.kind = "JSONDecodeError"
        /\ parsed = NoObject

\* C19 witness: process_ai_issue got a brace-delimited text that is not JSON
\* and reported the parse error alone
C19_Witness ==
    /\ script = "process" /\ Answered /\ result = <<Junk>>
    /\ LastErr = Err("JSONDecodeError", <<Reason("json.loads failed", <<>>, <<>>, <<>>)>>)

\* the reply has a brace-delimited part that is the text of a JSON object
HasParseableObject == \E i \in DOMAIN result : result[i].k = "obj"

\* C20 (as claimed): a reply of process_ai_issue with at least one
\* brace-delimited part that parses as an object is not treated as a parse
\* failure, also when it has several brace-delimited parts.
C20_ParseableObjectValidated ==
    script = "process" /\ Answered /\ HasParseableObject =>
        /\ LastErr.kind # "JSONDecodeError"
        /\ LastErr # NoError => LastErr.reasons[1].r \notin ParseReasons

(* ------------------------------------------------------------ providers *)
\* _select_single_provider has been called
Selected == script = "process" /\ pc # "start"

\* C21 (as claimed): with zero or several providers configured the run exits
\* before any model invocation, and with exactly one configured that
\* provider is selected.
C21_ExactlyOneSelected ==
    Selected =>
        IF Cardinality(configured) # 1
        THEN pc = "exit" /\ invoked = <<>>
        ELSE configured = {provider}

\* C21 (amended): with zero or several providers configured the run exits
\* with a failure before any model invocation; with exactly one configured,
\* that provider is selected when its client package can be imported, and
\* the run exits with a failure before any invocation when it cannot.
C21_ExactlyOneImportable ==
    Selected =>
        /\ Cardinality(configured) # 1 =>
              /\ pc = "exit" /\ invoked = <<>> /\ provider = "none"
              /\ exc = Err("SystemExit", <<Reason("Configure exactly one provider", <<>>, <<>>, <<>>)>>)
        /\ Cardinality(configured) = 1 =>
              \/ configured = {provider}
              \/ /\ provider = "none" /\ pc = "exit" /\ invoked = <<>>
                 /\ exc = Err("SystemExit", <<Reason("required package missing", <<>>, <<>>, <<>>)>>)
        /\ invoked # <<>> => configured = {provider}

\* C21 witness: with only the Anthropic key set the model was invoked through
\* anthropic
C21_Witness ==
    /\ Selected /\ configured = {"anthropic"} /\ provider = "anthropic"
    /\ invoked # <<>> /\ invoked[1] = "anthropic"

LoopDone == parsed # NoObject /\ errs # <<>> /\ LastErr = NoError
\* the run is still inside classify_issue_with_ai or the loop of main
LoopPending == pc \in {"start", "call", "validate", "after_loop", "cascade", "post"}
\* something has been rendered, written or saved
Produced == output # NoOutput \/ rendered # <<>>

\* C23: a body is rendered and an output written or saved only after the
\* retry loop has ended with an accepted reply, never while attempts are
\* pending; a run whose loop failed has produced nothing and ends in a
\* failure.
C23_OutputOnlyAfterDone ==
    /\ [][ output' # output \/ rendered' # rendered =>
              /\ parsed' # NoObject /\ errs' # <<>> /\ errs'[Len(errs')] = NoError
              /\ pc' \in {"written", "saved", "exit"} ]_vars
    /\ [](Produced => LoopDone /\ ~LoopPending)
    /\ [](LoopPending => ~Produced)
    /\ [](pc = "failed" \/ (pc = "exit" /\ ~LoopDone) => ~Produced /\ exc # NoError)

\* C23 witness: the step outputs were written with a rendered body after a
\* run that needed a second attempt
C23_Witness ==
    /\ script = "process" /\ pc = "written" /\ Len(errs) = 2 /\ errs[1] # NoError
    /\ output.kind = "step" /\ output.formatted_content = rendered /\ rendered # <<>>

(* ----------------------------------------------------------- normalizer *)
\* _normalize_fields has returned
Normalized ==
    pc \in {"normalized", "normalized_again", "validated", "rejected", "rendered",
           "output_written", "output_parsed"}

DerivedFrom(d, item) ==
    /\ d.type = item.type
    /\ item.type = "markdown" =>
          /\ d.label = item.value
          /\ ~d.hasopts /\ d.options = <<>>
    /\ item.type # "markdown" =>
          /\ d.label = (IF item.label # <<>> THEN item.label ELSE TypeText(item.type))
          /\ d.required = item.required
          /\ item.id # <<>> => d.key = item.id
          /\ d.hasopts = (item.type \in {"dropdown", "checkboxes"})

\* C25: the normalizer returns one descriptor per form item, in the order of
\* the items; a markdown item gives a markdown descriptor whose label is the
\* block text and which has no options.
C25_NormalizeKeepsOrder ==
    Normalized =>
        /\ Len(descriptors) = Len(template.body)
        /\ \A i \in DOMAIN descriptors : DerivedFrom(descriptors[i], template.body[i])

\* C25 witness: an input item followed by a markdown block has been
\* normalized
C25_Witness ==
    /\ Normalized /\ Len(template.body) = 2
    /\ template.body[1].type = "input" /\ template.body[2].type = "markdown"
    /\ descriptors[1].type = "input"
    /\ descriptors[2].type = "markdown" /\ descriptors[2].label = <<"H","i">>

\* C26: no two descriptors of a normalized template have the same key.
C26_KeysUnique ==
    Normalized =>
        \A i, j \in DOMAIN descriptors : i # j => descriptors[i].key # descriptors[j].key

(* ------------------------------------------------------------- renderer *)
\* the lines of a text
Lines(text) == Split(text, "\n")

\* the concatenation of a sequence of sequences
RECURSIVE Flatten(_)
Flatten(ss) == IF ss = <<>> THEN <<>> ELSE ss[1] \o Flatten(Tail(ss))

\* the checkbox lines of the rendered text, in order
BoxLines(text) == SelectSeq(Lines(text), LAMBDA l : StartsWith(l, <<"-", " ", "[">>))

\* the values selected for the i-th item: those supplied under the key the
\* normalizer declares for it
SelectedFor(i) == CheckboxTokens(DictGet(values, descriptors[i].key))

\* one line per declared option of the i-th item, checked when selected
ExpectedBoxes(i) ==
    LET opts == template.body[i].options
    IN  [ n \in DOMAIN opts |->
            <<"-", " ", "[">> \o (IF InList(opts[n].label, SelectedFor(i)) THEN <<"x">> ELSE <<" ">>)
            \o <<"]", " ">> \o opts[n].label ]

\* the checkbox lines the claim expects for the whole template
ExpectedAllBoxes ==
    Flatten([ i \in DOMAIN template.body |->
                IF template.body[i].type = "checkboxes" THEN ExpectedBoxes(i) ELSE <<>> ])

\* C27: the rendered text lists every declared option of every checkboxes
\* field once, in declared order, checked exactly when the option is among
\* the values selected for the field.
C27_CheckboxesListEveryOption ==
    pc = "rendered" => BoxLines(rendered) = ExpectedAllBoxes

\* the headings of a text: what follows "## " on the lines that start with it
Headings(text) ==
    LET hs == SelectSeq(Lines(text), LAMBDA l : StartsWith(l, <<"#", "#", " ">>))
    IN  [ i \in DOMAIN hs |-> SubSeq(hs[i], 4, Len(hs[i])) ]

\* the label of a form item
LabelOf(item) == IF item.label # <<>> THEN item.label ELSE TypeText(item.type)

\* the labels of the template's fields in declared order, then the
\* screenshots heading when images were supplied
FieldLabels ==
    LET fs == SelectSeq(template.body, LAMBDA it : it.type # "markdown")
    IN  [ i \in DOMAIN fs |-> LabelOf(fs[i]) ]
        \o (IF images # <<>> THEN << <<"S","c","r","e","e","n","s","h","o","t","s">> >> ELSE <<>>)

\* the text of the value supplied under the item's id or label slug
ValueText(item) ==
    LET v == DictGet(values, RenderKey(item))
    IN  IF v.t = "str" THEN Strip(v.s) ELSE <<>>

\* the headings one item contributes: those inside a markdown block, or the
\* label followed by the headings inside the value written under it
ItemHeadings(item) ==
    IF item.type = "markdown" THEN Headings(item.value)
    ELSE IF item.type = "checkboxes" THEN <<LabelOf(item)>>
    ELSE <<LabelOf(item)>> \o Headings(ValueText(item))

\* C28 as stated: the headings of the rendered text are the labels of the
\* template's fields in declared order, followed by the screenshots heading
\* when images were supplied.
C28_HeadingsAreLabels ==
    pc = "rendered" => Headings(rendered) = FieldLabels

\* C28 amended: the headings of the rendered text are, item by item in
\* declared order, the heading lines inside each markdown block and each
\* field's label followed by the heading lines inside its value, then the
\* screenshots heading when images were supplied; a field without a value
\* still contributes its label.
C28_HeadingsOfBlocksAndValues ==
    pc = "rendered" =>
        Headings(rendered) =
            Flatten([ i \in DOMAIN template.body |-> ItemHeadings(template.body[i]) ])
            \o (IF images # <<>> THEN << <<"S","c","r","e","e","n","s","h","o","t","s">> >> ELSE <<>>)

\* C28 witness: a markdown block with a heading line and a field whose value
\* is a heading line have been rendered, with images
C28_Witness ==
    /\ pc = "rendered" /\ images # <<>>
    /\ Headings(rendered) = << <<"H">>, <<"A"," ","b">>, <<"X">>, <<"S","c","r","e","e","n","s","h","o","t","s">> >>

\* a field without a value has been rendered with its heading
C28_EmptyFieldWitness ==
    /\ pc = "rendered" /\ values = <<>> /\ Len(template.body) = 2
    /\ Headings(rendered) = << <<"A"," ","b">>, <<"O","S">> >>

\* the position in out of the block of the i-th item of the template
BlockIndex(i) ==
    Cardinality({ j \in 1..i : template.body[j].type # "markdown" \/ template.body[j].value # <<>> })

\* what a block holds under its heading line
ContentOf(block) == Join(<<"\n">>, Tail(Lines(block)))

\* C29: after a run whose reply was accepted, the block rendered for every
\* required field of the template has non-empty content under its heading.
C29_RequiredRenderedNonEmpty ==
    pc = "rendered" =>
        /\ rendered = Join(<<"\n", "\n">>, DropEmpty(out))
        /\ \A i \in DOMAIN template.body :
               template.body[i].required /\ template.body[i].type # "markdown" =>
                   ContentOf(out[BlockIndex(i)]) # <<>>

(* ------------------------------------------------- ai_issue_analyze: save *)
\* a result has been saved
Saved == script = "analyze" /\ output.kind = "saved"

\* the saved object came from a reply that is one JSON object and has the
\* template file, title and body the claim asks for
SavedObjectOk ==
    /\ Len(result) = 1 /\ result[1].k = "obj" /\ result[1].c = output.obj
    /\ output.obj.template_file.t = "str" /\ output.obj.template_file.s \in TemplateFiles
    /\ output.obj.title.t = "str" /\ Strip(output.obj.title.s) # <<>>
    /\ output.obj.markdown_body.t = "str" /\ Strip(output.obj.markdown_body.s) # <<>>
    /\ output.obj.labels.t = "list"
    /\ \A i \in DOMAIN output.obj.labels.l : output.obj.labels.l[i] \in RepoLabels
    /\ ~InList(<<"a","i",":","t","r","i","a","g","e">>, output.obj.labels.l)

\* the labels of the saved object that begin with "type:"
SavedTypeLabels ==
    { l \in Range(output.obj.labels.l) : StartsWith(l, <<"t","y","p","e",":">>) }

RawSlug(item) == SubNonAlnum(Lower(LabelOf(item)), FALSE)

\* C32 as stated: the key of a field is its id, else the label lowercased
\* with every run of non-alphanumeric characters replaced by one separator,
\* and nothing else.
C32_KeyIsIdOrRawSlug ==
    Normalized =>
        \A i \in DOMAIN template.body :
            template.body[i].type # "markdown" =>
                descriptors[i].key = (IF template.body[i].id # <<>> THEN template.body[i].id
                                      ELSE RawSlug(template.body[i]))

\* C32 amended: the key of a field is its id, else the label (or, without a
\* label, the type) lowercased with every run of non-alphanumeric
\* characters replaced by one underscore and the underscores at both ends
\* stripped, else, when nothing is left, f_N with N the position of the
\* item counted from 0.
C32_KeyIsIdOrStrippedSlugOrIndex ==
    Normalized =>
        \A i \in DOMAIN template.body :
            template.body[i].type # "markdown" =>
                descriptors[i].key =
                    (IF template.body[i].id # <<>> THEN template.body[i].id
                     ELSE IF StripSet(RawSlug(template.body[i]), {"_"}) # <<>>
                     THEN StripSet(RawSlug(template.body[i]), {"_"})
                     ELSE <<"f", "_">> \o NumStr(i - 1))

\* C32 witness: an item whose label has no letter or digit got a generated
\* key, after an item whose key is the slug of its label
C32_Witness ==
    /\ Normalized /\ Len(descriptors) = 2
    /\ template.body[1].id = <<>> /\ descriptors[1].key = <<"a","_","b">>
    /\ template.body[2].label = <<"?">> /\ descriptors[2].key = <<"f","_","1">>

\* the labels of the option entries that are objects with a non-empty label
DeclaredLabels(opts) ==
    LET named == SelectSeq(opts, LAMBDA o : o.isdict /\ o.haslabel /\ o.label # <<>>)
    IN  [ n \in DOMAIN named |-> named[n].label ]

\* C33: the options of a dropdown or checkboxes descriptor are the labels
\* of the declared option entries in declared order; entries that are not
\* objects, that have no label or an empty one contribute nothing, so no
\* option is the empty string.
C33_OptionsSkipEmpty ==
    Normalized =>
        \A i \in DOMAIN template.body :
            template.body[i].type \in {"dropdown", "checkboxes"} =>
                /\ descriptors[i].options = DeclaredLabels(template.body[i].options)
                /\ ~InList(<<>>, descriptors[i].options)

\* C35: the renderer looks the value of every field up under the key the
\* normalizer published for it.
C35_RenderKeyIsSchemaKey ==
    Normalized =>
        \A i \in DOMAIN template.body :
            template.body[i].type # "markdown" =>
                RenderKey(template.body[i]) = descriptors[i].key

\* the option texts the renderer lists for an item
RenderedOptions(item) ==
    LET shown == SelectSeq(item.options, LAMBDA o : OptionText(o) # <<>>)
    IN  [ n \in DOMAIN shown |-> OptionText(shown[n]) ]

\* C36: the options the validator checks the values of a checkboxes field
\* against are the options the renderer lists for it, and those lines are
\* in the rendered text.
C36_ValidatedOptionsAreRendered ==
    pc = "rendered" =>
        /\ \A i \in DOMAIN template.body :
               template.body[i].type = "checkboxes" =>
                   Range(descriptors[i].options) = Range(RenderedOptions(template.body[i]))
        /\ Len(BoxLines(rendered))
             = Len(Flatten([ i \in DOMAIN template.body |->
                               IF template.body[i].type = "checkboxes"
                               THEN descriptors[i].options ELSE <<>> ]))

(* ------------------------------------------------- failed invocations *)
\* C34: a model invocation that raises leaves the conversation as it was:
\* the next attempt sends the message sequence of the failed one, and until
\* then the conversation is that sequence.
C34_FailedCallKeepsConversation ==
    script = "process" =>
        \A k \in DOMAIN errs :
            errs[k].kind = "ProviderError" =>
                /\ k \in DOMAIN sent
                /\ k + 1 \in DOMAIN sent => sent[k + 1] = sent[k]
                /\ k = Len(sent) => messages = sent[k]

\* C34 witness: the second call raised after a rejected first reply, and the
\* third call was made with the messages of the second
C34_Witness ==
    /\ script = "process" /\ Len(sent) = 3 /\ Len(errs) >= 2
    /\ errs[1].kind = "ValueError" /\ errs[2].kind = "ProviderError"
    /\ sent[3] = sent[2] /\ Len(sent[2]) = Len(sent[1]) + 2

(* --------------------------------------------- applying the result *)
\* the run of issue_apply_update ended in success
Applied == pc = "applied"

\* C31: after a successful run the issue has the title and the body of the
\* result JSON, carries every label the result proposes and 'ai:processed',
\* and does not carry 'ai:triage'
C31_AppliedIssueState ==
    Applied =>
        /\ issue.title = result_json.title.s
        /\ issue.body = result_json.markdown_body.s
        /\ Range(result_json.labels.l) \subseteq issue.labels
        /\ AiProcessed \in issue.labels
        /\ AiTriage \notin issue.labels

\* the run failed on one of its validations
FailedValidation ==
    /\ script = "apply"
    /\ pc = "exit"
    /\ exc # Fail("GitHub API error")

\* C37: when the run fails on a validation, no request that changes the
\* issue has been sent
C37_ValidationsBeforeMutations ==
    FailedValidation => requests = <<>>

(* ------------------------------------------------- the step-output file *)
\* the value the parsed outputs hold under a key ('' without the key)
DataGet(d, k) == IF HasKey(d, k) THEN d[CHOOSE i \in DOMAIN d : d[i].k = k].v ELSE <<>>

\* C38: parse_github_output on the text process_ai_issue wrote returns the
\* formatted_content that was written, with all of its lines, and the
\* written issue_type, priority, labels and suggested_title
C38_OutputRoundTrip ==
    pc = "output_parsed" =>
        /\ DataGet(parsed_data, OutputKey.formatted_content) = output.formatted_content
        /\ DataGet(parsed_data, OutputKey.issue_type) = output.issue_type
        /\ DataGet(parsed_data, OutputKey.priority) = output.priority
        /\ DataGet(parsed_data, OutputKey.labels) = output.labels
        /\ DataGet(parsed_data, OutputKey.suggested_title) = output.suggested_title

====
